---- MODULE Spec2Model ----
(***************************************************************************)
(* A model of tools/add_skeleton.py: the GLB container codec (read_glb,    *)
(* write_glb), the accessor reader and the payload appender                *)
(* (get_accessor_data, add_to_buffer), the skeleton table, the skin-weight *)
(* solver and the orchestrator add_skeleton_to_glb.                        *)
(*                                                                         *)
(* Bytes are integers 0..255.  A 32-bit float is carried as a fixed-point  *)
(* word (units of 1/FScale), packed little-endian in two's complement, so  *)
(* that pack/unpack are real conversions over 4 bytes.                     *)
(***************************************************************************)
EXTENDS Integers, Sequences, FiniteSets, TLC

\* Codec run: write_glb(path, c_doc, c_payload), then read_glb(path).
VARIABLES c_doc, c_payload, file, dec, cpc
codecVars == << c_doc, c_payload, file, dec, cpc >>

\* Append run: a caller's bytearray a_bin grown by add_to_buffer calls; a_before is
\* len(bin_data) at the last call, a_ret the (offset, length) it returned.
VARIABLES a_bin, a_before, a_ret, a_calls
appendVars == << a_bin, a_before, a_ret, a_calls >>

\* Accessor read: get_accessor_data on a document holding the accessor r_acc over
\* the buffer view r_view, with the payload r_bin; r_ret is what the call gave.
VARIABLES r_acc, r_view, r_bin, r_ret, rpc
readVars == << r_acc, r_view, r_bin, r_ret, rpc >>

\* Pipeline run, add_skeleton_to_glb(input_path, output_path): pc is the position
\* in the function, err the exception that ended it, input the container at
\* input_path, output the container at output_path; the others are the function's
\* locals (loc holds the integer ones).  regions lists what the add_to_buffer
\* calls returned, in call order.
VARIABLES pc, err, input, output, gltf, bin_data, mesh_node_idx, positions, bones,
          joints_data, weights_data, animations, joint_node_indices, loc,
          samplers, anim_channels, regions
pipeVars == << pc, err, input, output, gltf, bin_data, mesh_node_idx, positions, bones,
               joints_data, weights_data, animations, joint_node_indices, loc,
               samplers, anim_channels, regions >>

\* ------------------------------------------------------------------ bounds
\* codec specification
MaxDocKeys == 2
MaxPayloadLen == 5
\* append specification
MaxInitLen == 5
MaxAppends == 2
MaxValues == 3
\* read specification: elements of the accessor, bytes of the payload
MaxCount == 2
MaxReadLen == 8
\* pipeline specification: vertices of the input mesh, bytes after its positions
MaxVerts == 3
MaxExtra == 1

\* ------------------------------------------------------- program constants
GLB_MAGIC == 1179937895
GLB_VERSION == 2
CHUNK_JSON == 1313821514
CHUNK_BIN == 5130562
HEADER_LEN == 12
CHUNK_HEADER_LEN == 8
SPACE == 32
ZERO == 0

Min(a, b) == IF a <= b THEN a ELSE b

\* --------------------------------------------------------- struct pack/unpack
\* struct.pack('<I', n): four little-endian bytes.
U32LE(n) ==
    << n % 256, (n \div 256) % 256, (n \div 65536) % 256, (n \div 16777216) % 256 >>

\* struct.unpack('<I', b) of four bytes; a value of 2^31 or more does not fit the
\* model's integers and is reported as TooBig (never produced within the bounds).
TooBig == -1
FromU32LE(b) ==
    IF b[4] >= 128 THEN TooBig
    ELSE b[1] + 256 * b[2] + 65536 * b[3] + 16777216 * b[4]

\* f.read(n) at cursor pos (0-based): up to n bytes, fewer at the end of the file.
FileRead(f, pos, n) == SubSeq(f, pos + 1, Min(pos + n, Len(f)))

\* One byte of a little-endian two's-complement word: byte k (0-based) of w.
RECURSIVE Pow256(_)
Pow256(k) == IF k = 0 THEN 1 ELSE 256 * Pow256(k - 1)
WordByte(w, k) ==
    IF w >= 0 THEN (w \div Pow256(k)) % 256
    ELSE 255 - (((-w - 1) \div Pow256(k)) % 256)

\* struct.pack(f'<{n}f', *data), ...H, ...B: data as consecutive little-endian
\* elements of the given byte width.
PackWords(data, width) ==
    [n \in 1..(width * Len(data)) |-> WordByte(data[((n - 1) \div width) + 1], (n - 1) % width)]

\* struct.unpack of one float word from 4 bytes.
FloatWord(b) ==
    IF b[4] >= 128
    THEN -((255 - b[1]) + 256 * (255 - b[2]) + 65536 * (255 - b[3]) + 16777216 * (255 - b[4])) - 1
    ELSE b[1] + 256 * b[2] + 65536 * b[3] + 16777216 * b[4]

\* ------------------------------------------------------------------- JSON
\* A codec-level document is an ordered dict of string keys to naturals:
\* a sequence of [k |-> <<key bytes>>, v |-> n] with distinct keys.
QUOTE == 34
COMMA == 44
COLON == 58
LBRACE == 123
RBRACE == 125
DIGIT0 == 48
JsonWs == {32, 9, 10, 13}

RECURSIVE Digits(_)
Digits(n) == IF n < 10 THEN << DIGIT0 + n >> ELSE Digits(n \div 10) \o << DIGIT0 + (n % 10) >>

JsonMember(e) == << QUOTE >> \o e.k \o << QUOTE, COLON >> \o Digits(e.v)

RECURSIVE JsonMembers(_)
JsonMembers(d) ==
    IF Len(d) = 0 THEN << >>
    ELSE IF Len(d) = 1 THEN JsonMember(d[1])
    ELSE JsonMember(d[1]) \o << COMMA >> \o JsonMembers(Tail(d))

\* json.dumps(gltf, separators=(',', ':')).encode('utf-8')
json_dumps(d) == << LBRACE >> \o JsonMembers(d) \o << RBRACE >>

RECURSIVE SkipWs(_, _)
SkipWs(b, i) == IF i <= Len(b) /\ b[i] \in JsonWs THEN SkipWs(b, i + 1) ELSE i

At(b, i) == IF i >= 1 /\ i <= Len(b) THEN b[i] ELSE -1
IsDigit(c) == c >= DIGIT0 /\ c <= DIGIT0 + 9

RECURSIVE ParseDigits(_, _, _)
ParseDigits(b, i, acc) ==
    IF IsDigit(At(b, i)) THEN ParseDigits(b, i + 1, 10 * acc + (b[i] - DIGIT0))
    ELSE [val |-> acc, next |-> i]

\* A JSON number as dumps writes naturals: digits, no leading zero.
ParseNat(b, i) ==
    IF ~IsDigit(At(b, i)) THEN [ok |-> FALSE, val |-> 0, next |-> i]
    ELSE IF b[i] = DIGIT0 /\ IsDigit(At(b, i + 1)) THEN [ok |-> FALSE, val |-> 0, next |-> i]
    ELSE LET r == ParseDigits(b, i, 0) IN [ok |-> TRUE, val |-> r.val, next |-> r.next]

RECURSIVE StringEnd(_, _)
StringEnd(b, i) == IF i > Len(b) \/ b[i] = QUOTE THEN i ELSE StringEnd(b, i + 1)

\* dict[key] = value: a repeated key keeps its place and takes the new value.
DictSet(d, key, val) ==
    IF \E n \in 1..Len(d) : d[n].k = key
    THEN [n \in 1..Len(d) |-> IF d[n].k = key THEN [k |-> key, v |-> val] ELSE d[n]]
    ELSE Append(d, [k |-> key, v |-> val])

JsonFail == [ok |-> FALSE, doc |-> << >>, next |-> 0]

RECURSIVE ParseMembers(_, _, _)
ParseMembers(b, i0, acc) ==
    LET i == SkipWs(b, i0) IN
    IF At(b, i) # QUOTE THEN JsonFail
    ELSE LET e == StringEnd(b, i + 1) IN
         IF e > Len(b) THEN JsonFail
         ELSE LET key == SubSeq(b, i + 1, e - 1)
                  c == SkipWs(b, e + 1)
              IN IF At(b, c) # COLON THEN JsonFail
                 ELSE LET num == ParseNat(b, SkipWs(b, c + 1)) IN
                      IF ~num.ok THEN JsonFail
                      ELSE LET s == SkipWs(b, num.next)
                               d == DictSet(acc, key, num.val)
                           IN IF At(b, s) = COMMA THEN ParseMembers(b, s + 1, d)
                              ELSE IF At(b, s) = RBRACE
                                   THEN [ok |-> TRUE, doc |-> d, next |-> s + 1]
                                   ELSE JsonFail

\* json.loads(text): surrounding whitespace is skipped, anything else after the
\* closing brace is an error.
json_loads(b) ==
    LET i == SkipWs(b, 1) IN
    IF At(b, i) # LBRACE THEN [ok |-> FALSE, doc |-> << >>]
    ELSE LET j == SkipWs(b, i + 1)
             r == IF At(b, j) = RBRACE THEN [ok |-> TRUE, doc |-> << >>, next |-> j + 1]
                  ELSE ParseMembers(b, j, << >>)
         IN IF r.ok /\ SkipWs(b, r.next) > Len(b)
            THEN [ok |-> TRUE, doc |-> r.doc]
            ELSE [ok |-> FALSE, doc |-> << >>]

\* ---------------------------------------------------------------- write_glb
\* while len(x) % 4 != 0: x += fill
PadTo4(x, fill) == x \o [n \in 1..((4 - (Len(x) % 4)) % 4) |-> fill]

\* Mutants: the fill bytes of the two chunks exchanged.
PadJson_zero(json_str) == PadTo4(json_str, ZERO)
PadBin_space(bin) == PadTo4(bin, SPACE)

PadJson(json_str) == PadTo4(json_str, SPACE)
PadBin(bin) == PadTo4(bin, ZERO)

\* Mutant: the binary chunk's 8-byte header left out of the sum.
total_length_short(json_str, bin) ==
    HEADER_LEN + CHUNK_HEADER_LEN + Len(json_str) + Len(bin)

\* total_length = 12 + 8 + len(json_str) + 8 + len(bin_data)
total_length(json_str, bin) ==
    HEADER_LEN + CHUNK_HEADER_LEN + Len(json_str) + CHUNK_HEADER_LEN + Len(bin)

\* The bytes the five f.write calls put in the file, in order.
WriteBytes(json_str, bin) ==
    U32LE(GLB_MAGIC) \o U32LE(GLB_VERSION) \o U32LE(total_length(json_str, bin))
    \o U32LE(Len(json_str)) \o U32LE(CHUNK_JSON) \o json_str
    \o U32LE(Len(bin)) \o U32LE(CHUNK_BIN) \o bin

write_glb(d, bin) == WriteBytes(PadJson(json_dumps(d)), PadBin(bin))

\* ----------------------------------------------------------------- read_glb
\* The result of read_glb: status "ok" with the document and the payload, or the
\* exception that ends it.
ReadFail(why) == [status |-> why, json |-> << >>, bin |-> << >>]

\* Mutant: a binary chunk is read whatever the header's total length says.
read_glb_expecting_bin(f) ==
    LET hdr == FileRead(f, 0, HEADER_LEN) IN
    IF Len(hdr) < HEADER_LEN THEN ReadFail("struct.error")
    ELSE IF FromU32LE(SubSeq(hdr, 1, 4)) # GLB_MAGIC THEN ReadFail("ValueError")
    ELSE LET ch == FileRead(f, 12, CHUNK_HEADER_LEN) IN
         IF Len(ch) < CHUNK_HEADER_LEN THEN ReadFail("struct.error")
         ELSE LET text == FileRead(f, 20, FromU32LE(SubSeq(ch, 1, 4)))
                  parsed == json_loads(text)
                  bh == FileRead(f, 20 + Len(text), CHUNK_HEADER_LEN)
              IN IF ~parsed.ok THEN ReadFail("JSONDecodeError")
                 ELSE IF Len(bh) < CHUNK_HEADER_LEN THEN ReadFail("struct.error")
                 ELSE [status |-> "ok", json |-> parsed.doc,
                       bin |-> FileRead(f, 28 + Len(text), FromU32LE(SubSeq(bh, 1, 4)))]

read_glb(f) ==
    LET hdr == FileRead(f, 0, HEADER_LEN) IN
    IF Len(hdr) < HEADER_LEN THEN ReadFail("struct.error")
    ELSE LET magic == FromU32LE(SubSeq(hdr, 1, 4))
             length == FromU32LE(SubSeq(hdr, 9, 12))
         IN
         IF magic # GLB_MAGIC THEN ReadFail("ValueError")
         ELSE LET ch == FileRead(f, 12, CHUNK_HEADER_LEN) IN
              IF Len(ch) < CHUNK_HEADER_LEN THEN ReadFail("struct.error")
              ELSE LET chunk_len == FromU32LE(SubSeq(ch, 1, 4))
                       text == FileRead(f, 20, chunk_len)
                       parsed == json_loads(text)
                       tell == 20 + Len(text)
                   IN
                   IF ~parsed.ok THEN ReadFail("JSONDecodeError")
                   ELSE IF tell < length
                        THEN LET bh == FileRead(f, tell, CHUNK_HEADER_LEN) IN
                             IF Len(bh) < CHUNK_HEADER_LEN THEN ReadFail("struct.error")
                             ELSE [status |-> "ok", json |-> parsed.doc,
                                   bin |-> FileRead(f, tell + 8, FromU32LE(SubSeq(bh, 1, 4)))]
                        ELSE [status |-> "ok", json |-> parsed.doc, bin |-> << >>]

\* ------------------------------------------------------------ add_to_buffer
\* offset = len(bin_data); while offset % 4 != 0: bin_data += b'\x00'
AlignBuffer(bin) == PadTo4(bin, ZERO)

\* The dtype branches: 'f', 'H', 'B' pack the values, anything else appends data as is.
Packed(data, dtype) ==
    IF dtype = "f" THEN PackWords(data, 4)
    ELSE IF dtype = "H" THEN PackWords(data, 2)
    ELSE IF dtype = "B" THEN PackWords(data, 1)
    ELSE data

\* Mutant: the payload grows by the packed data with no alignment of its start.
add_to_buffer_unaligned(bin, data, dtype) ==
    [bin |-> bin \o Packed(data, dtype),
     offset |-> Len(bin),
     length |-> Len(Packed(data, dtype))]

\* Mutant: the start is aligned downwards, over the last bytes of the payload.
add_to_buffer_truncating(bin, data, dtype) ==
    LET start == Len(bin) - (Len(bin) % 4) IN
    [bin |-> SubSeq(bin, 1, start) \o Packed(data, dtype),
     offset |-> start,
     length |-> Len(Packed(data, dtype))]

\* add_to_buffer grows the caller's bytearray in place (bin) and returns
\* (offset, len(packed)).
add_to_buffer(bin, data, dtype) ==
    LET aligned == AlignBuffer(bin)
        packed == Packed(data, dtype)
    IN [bin |-> aligned \o packed, offset |-> Len(aligned), length |-> Len(packed)]

\* -------------------------------------------------------- dicts and lists
\* A Python dict is a function from its keys; `k in d` is k \in DOMAIN d.
DictPut(d, k, v) == [x \in (DOMAIN d) \cup {k} |-> IF x = k THEN v ELSE d[x]]
DictGet(d, k, default) == IF k \in DOMAIN d THEN d[k] ELSE default
\* A Python list index is 0-based; sequences are 1-based.
Item(list, idx) == list[idx + 1]
SetItem(list, idx, v) == [list EXCEPT ![idx + 1] = v]

\* -------------------------------------------------------- get_accessor_data
FLOAT == 5126
UNSIGNED_BYTE == 5121
\* component_types, with struct.calcsize of each format character.
ComponentWidth == [c \in {5120, 5121, 5122, 5123, 5125, 5126} |->
                     IF c \in {5120, 5121} THEN 1 ELSE IF c \in {5122, 5123} THEN 2 ELSE 4]
ComponentSigned == {5120, 5122}
type_counts == [t \in {"SCALAR", "VEC2", "VEC3", "VEC4", "MAT4"} |->
                  IF t = "SCALAR" THEN 1 ELSE IF t = "VEC2" THEN 2
                  ELSE IF t = "VEC3" THEN 3 ELSE IF t = "VEC4" THEN 4 ELSE 16]

\* struct.unpack of one element of the given component type from its bytes.
UnpackOne(b, ctype) ==
    IF ctype = FLOAT THEN FloatWord(b)
    ELSE IF ctype = 5125 THEN FromU32LE(b)
    ELSE LET w == Len(b)
             u == IF w = 1 THEN b[1] ELSE b[1] + 256 * b[2]
         IN IF ctype \in ComponentSigned /\ b[w] >= 128 THEN u - Pow256(w) ELSE u

AccessorFail(why) == [status |-> why, data |-> << >>]

\* Mutant: element e is read at e x byteStride when the view declares a stride.
get_accessor_data_strided(doc, bin, accessor_idx) ==
    LET accessor == Item(doc.accessors, accessor_idx)
        buffer_view == Item(doc.bufferViews, accessor.bufferView)
        offset == DictGet(buffer_view, "byteOffset", 0) + DictGet(accessor, "byteOffset", 0)
    IN
    IF accessor.componentType \notin DOMAIN ComponentWidth THEN AccessorFail("KeyError")
    ELSE IF accessor.type \notin DOMAIN type_counts THEN AccessorFail("KeyError")
    ELSE LET width == ComponentWidth[accessor.componentType]
             count == type_counts[accessor.type]
             step == DictGet(buffer_view, "byteStride", width * count)
             at(e, c) == offset + step * (e - 1) + width * (c - 1)
             elem(e) == [c \in 1..count |->
                           UnpackOne(SubSeq(bin, at(e, c) + 1, at(e, c) + width),
                                     accessor.componentType)]
         IN
         IF accessor.count > 0 /\ at(accessor.count, count) + width > Len(bin)
         THEN AccessorFail("struct.error")
         ELSE [status |-> "ok",
               data |-> IF count = 1 THEN [e \in 1..accessor.count |-> elem(e)[1]]
                        ELSE [e \in 1..accessor.count |-> elem(e)]]

get_accessor_data(doc, bin, accessor_idx) ==
    LET accessor == Item(doc.accessors, accessor_idx)
        buffer_view == Item(doc.bufferViews, accessor.bufferView)
        offset == DictGet(buffer_view, "byteOffset", 0) + DictGet(accessor, "byteOffset", 0)
    IN
    IF accessor.componentType \notin DOMAIN ComponentWidth THEN AccessorFail("KeyError")
    ELSE IF accessor.type \notin DOMAIN type_counts THEN AccessorFail("KeyError")
    ELSE LET width == ComponentWidth[accessor.componentType]
             count == type_counts[accessor.type]
             total == accessor.count * count
             size == width * total
             \* bin_data[offset:offset + size]: cut at the end of the payload
             region == SubSeq(bin, offset + 1, Min(offset + size, Len(bin)))
         IN
         IF Len(region) # size THEN AccessorFail("struct.error")
         ELSE LET data == [n \in 1..total |->
                             UnpackOne(SubSeq(region, width * (n - 1) + 1, width * n),
                                       accessor.componentType)]
              IN [status |-> "ok",
                  data |-> IF count = 1 THEN data
                           ELSE [e \in 1..accessor.count |->
                                   SubSeq(data, count * (e - 1) + 1, count * e)]]

\* -------------------------------------------------- create_humanoid_skeleton
\* Floats are fixed-point words in units of 1/FScale: finer than 1e-5, coarser
\* than the spacing of 32-bit floats in [0.25, 1].
FScale == 600000

\* The bone table: name, x offset in hundredths of the width (signed), y offset
\* in hundredths of the height, parent index.
BoneTable ==
    << << "Root", 0, 0, -1 >>,
       << "Hips", 0, 45, 0 >>,
       << "Spine", 0, 55, 1 >>,
       << "Chest", 0, 65, 2 >>,
       << "Neck", 0, 80, 3 >>,
       << "Head", 0, 90, 4 >>,
       << "LeftShoulder", 25, 75, 3 >>,
       << "LeftArm", 35, 65, 6 >>,
       << "LeftForearm", 40, 50, 7 >>,
       << "LeftHand", 45, 35, 8 >>,
       << "RightShoulder", -25, 75, 3 >>,
       << "RightArm", -35, 65, 10 >>,
       << "RightForearm", -40, 50, 11 >>,
       << "RightHand", -45, 35, 12 >>,
       << "LeftUpLeg", 12, 45, 1 >>,
       << "LeftLeg", 12, 25, 14 >>,
       << "LeftFoot", 12, 5, 15 >>,
       << "RightUpLeg", -12, 45, 1 >>,
       << "RightLeg", -12, 25, 17 >>,
       << "RightFoot", -12, 5, 18 >> >>

\* x * pct / 100 on fixed-point words (exact for the words of the model).
Hundredths(x, pct) == (x * pct) \div 100

\* The bones of a table placed in the bounds: each is (name, position, parent_index).
PlaceBones(table, min_pt, max_pt) ==
    LET width == max_pt[1] - min_pt[1]
        height == max_pt[2] - min_pt[2]
        center_x == (min_pt[1] + max_pt[1]) \div 2
        center_z == (min_pt[3] + max_pt[3]) \div 2
    IN [n \in 1..Len(table) |->
          [name |-> table[n][1],
           pos |-> << center_x + Hundredths(width, table[n][2]),
                      min_pt[2] + Hundredths(height, table[n][3]),
                      center_z >>,
           parent |-> table[n][4]]]

\* Mutant: the table without its last row.
create_humanoid_skeleton_short(min_pt, max_pt) ==
    PlaceBones(SubSeq(BoneTable, 1, Len(BoneTable) - 1), min_pt, max_pt)
\* Mutant: RightLeg hung under its own child RightFoot.
create_humanoid_skeleton_cycle(min_pt, max_pt) ==
    PlaceBones([BoneTable EXCEPT ![19] = << "RightLeg", -12, 25, 19 >>], min_pt, max_pt)

create_humanoid_skeleton(min_pt, max_pt) == PlaceBones(BoneTable, min_pt, max_pt)

\* positions_np.min(axis=0), positions_np.max(axis=0)
AxisMin(pts, ax) ==
    CHOOSE m \in { pts[n][ax] : n \in 1..Len(pts) } :
        \A n \in 1..Len(pts) : m <= pts[n][ax]
AxisMax(pts, ax) ==
    CHOOSE m \in { pts[n][ax] : n \in 1..Len(pts) } :
        \A n \in 1..Len(pts) : m >= pts[n][ax]
MinPt(pts) == << AxisMin(pts, 1), AxisMin(pts, 2), AxisMin(pts, 3) >>
MaxPt(pts) == << AxisMax(pts, 1), AxisMax(pts, 2), AxisMax(pts, 3) >>

\* ------------------------------------------------------ compute_skin_weights
max_influences == 4

\* floor(sqrt(x)), by bisection on [lo, hi].
RECURSIVE ISqrtIn(_, _, _)
ISqrtIn(x, lo, hi) ==
    IF lo = hi THEN lo
    ELSE LET mid == (lo + hi + 1) \div 2 IN
         IF mid * mid <= x THEN ISqrtIn(x, mid, hi) ELSE ISqrtIn(x, lo, mid - 1)
ISqrt(x) == ISqrtIn(x, 0, 32767)

\* [q, r] with a * m = q * t + r and 0 <= r < t, without forming a * m.
RECURSIVE MulDivMod(_, _, _)
MulDivMod(a, m, t) ==
    IF m = 0 THEN [q |-> 0, r |-> 0]
    ELSE LET h == MulDivMod(a, m \div 2, t)
             r2 == 2 * h.r + (IF m % 2 = 1 THEN a % t ELSE 0)
             q2 == 2 * h.q + (IF m % 2 = 1 THEN a \div t ELSE 0)
         IN [q |-> q2 + (r2 \div t), r |-> r2 % t]

\* Squared distance of a vertex to a bone, in squared hundredths of a unit
\* (pts of the model are whole hundredths).
Centi == FScale \div 100
Dist2(pos, bpos) ==
    LET dx == (pos[1] - bpos[1]) \div Centi
        dy == (pos[2] - bpos[2]) \div Centi
        dz == (pos[3] - bpos[3]) \div Centi
    IN dx * dx + dy * dy + dz * dz

\* inv_dist = 1.0 / (distances + 0.001), the distance in thousandths; the result
\* is a double that is never packed, carried in units of 1/InvScale.
InvScale == 30000
InvDist(pos, bpos) == (InvScale * 1000) \div (ISqrt(Dist2(pos, bpos) * 100) + 1)

\* np.argsort(inv_dist): ascending inverse distance, i.e. descending distance (the
\* exact squared distance decides, as the double-precision values do).  argsort is
\* not a stable sort: among equal keys the order is the build's, taken here as
\* index order ("asc") or its reverse ("desc").
SortsBefore(pos, bns, c, b, tie) ==
    \/ Dist2(pos, bns[c].pos) > Dist2(pos, bns[b].pos)
    \/ /\ Dist2(pos, bns[c].pos) = Dist2(pos, bns[b].pos)
       /\ IF tie = "asc" THEN c < b ELSE c > b

\* The 0-based bone indices in argsort order.
Argsort(pos, bns, tie) ==
    [p \in 1..Len(bns) |->
       (CHOOSE b \in 1..Len(bns) :
          Cardinality({ c \in 1..Len(bns) : SortsBefore(pos, bns, c, b, tie) }) = p - 1) - 1]

\* Mutant: the last max_influences of the argsort order, not reversed.
TopIndices_unreversed(pos, bns, tie) ==
    LET order == Argsort(pos, bns, tie) IN
    [k \in 1..max_influences |-> order[Len(bns) - max_influences + k]]

\* np.argsort(inv_dist)[-max_influences:][::-1]
TopIndices(pos, bns, tie) ==
    LET order == Argsort(pos, bns, tie) IN
    [k \in 1..max_influences |-> order[Len(bns) + 1 - k]]

\* top_weights = inv_dist[top_indices]; total = sum; if total > 0: top_weights /= total
RECURSIVE SumSeq(_)
SumSeq(q) == IF Len(q) = 0 THEN 0 ELSE q[1] + SumSeq(Tail(q))

\* Mutant: the selected weights emitted as they are, not divided by their sum.
TopWeights_raw(pos, bns, tie) ==
    LET top == TopIndices(pos, bns, tie) IN
    [k \in 1..max_influences |-> InvDist(pos, bns[top[k] + 1].pos)]

TopWeights(pos, bns, tie) ==
    LET top == TopIndices(pos, bns, tie)
        raw == [k \in 1..max_influences |-> InvDist(pos, bns[top[k] + 1].pos)]
        total == SumSeq(raw)
    IN IF total > 0
       THEN [k \in 1..max_influences |-> MulDivMod(raw[k], FScale, total).q]
       ELSE raw

\* Mutant: the rows laid out influence-major (column by column).
Flatten_columns(rows) ==
    LET nrows == Len(rows) IN
    [n \in 1..(nrows * max_influences) |-> rows[((n - 1) % nrows) + 1][((n - 1) \div nrows) + 1]]

\* ndarray.flatten().tolist() of a (num_verts, max_influences) array: row-major.
Flatten(rows) ==
    [n \in 1..(Len(rows) * max_influences) |->
       rows[((n - 1) \div max_influences) + 1][((n - 1) % max_influences) + 1]]

\* (joints.flatten().tolist(), weights.flatten().tolist())
compute_skin_weights(pts, bns, tie) ==
    [joints |-> Flatten([v \in 1..Len(pts) |-> TopIndices(pts[v], bns, tie)]),
     weights |-> Flatten([v \in 1..Len(pts) |-> TopWeights(pts[v], bns, tie)])]

\* --------------------------------------------------------- create_animations
fps == 30
idle_duration == 2 * FScale
walk_duration == FScale
attack_duration == FScale \div 2

\* int(duration * fps)
Frames(duration) == (duration * fps) \div FScale
\* Mutant: the time samples laid out from the last frame down to 0.
Times_descending(duration) ==
    [n \in 1..(Frames(duration) + 1) |-> ((Frames(duration) + 1 - n) * FScale) \div fps]

\* [i / fps for i in range(frames + 1)]
Times(duration) == [n \in 1..(Frames(duration) + 1) |-> ((n - 1) * FScale) \div fps]

\* The keyframe values of a channel, flattened: a quaternion [x, y, z, w] per
\* time sample for a rotation, [x, y, z] for a translation.  The curves (sines of
\* the phase) are not computed: every keyframe carries the rest value.
\* Mutant: three values per time sample whatever the path.
KeyValues_translation(path, times) == [n \in 1..(3 * Len(times)) |-> IF n % 3 = 0 THEN FScale ELSE 0]
KeyValues(path, times) ==
    IF path = "rotation"
    THEN [n \in 1..(4 * Len(times)) |-> IF n % 4 = 0 THEN FScale ELSE 0]
    ELSE [n \in 1..(3 * Len(times)) |-> 0]

Channel(bone_idx, path, duration) ==
    [bone_idx |-> bone_idx, path |-> path, times |-> Times(duration),
     values |-> KeyValues(path, Times(duration))]

\* Mutant: the Walk clip returned ahead of the Idle clip.
create_animations_reordered ==
    << [name |-> "Walk",
        channels |-> << Channel(1, "translation", walk_duration) >>],
       [name |-> "Idle",
        channels |-> << Channel(2, "rotation", idle_duration) >>],
       [name |-> "Attack",
        channels |-> << Channel(11, "rotation", attack_duration) >>] >>

\* Bone indices HIPS, SPINE, CHEST = 1, 2, 3; LEFT_ARM 7; RIGHT_ARM, RIGHT_FOREARM
\* = 11, 12; LEFT_UPLEG 14; RIGHT_UPLEG 17.
create_animations ==
    << [name |-> "Idle",
        channels |-> << Channel(2, "rotation", idle_duration) >>],
       [name |-> "Walk",
        channels |-> << Channel(1, "translation", walk_duration),
                        Channel(14, "rotation", walk_duration),
                        Channel(17, "rotation", walk_duration),
                        Channel(7, "rotation", walk_duration),
                        Channel(11, "rotation", walk_duration) >>],
       [name |-> "Attack",
        channels |-> << Channel(11, "rotation", attack_duration),
                        Channel(12, "rotation", attack_duration),
                        Channel(3, "rotation", attack_duration) >>] >>

\* ------------------------------------------------------ codec specification
DocKeys == { << 97 >>, << 98 >> }
DocValues == {0, 10, 123}
PayloadBytes == {0, 7}

RECURSIVE SeqsUpTo(_, _)
SeqsUpTo(S, n) ==
    IF n = 0 THEN { << >> }
    ELSE LET shorter == SeqsUpTo(S, n - 1) IN
         shorter \cup { Append(q, x) : q \in { t \in shorter : Len(t) = n - 1 }, x \in S }

DistinctKeys(d) == \A m, n \in 1..Len(d) : m # n => d[m].k # d[n].k
Docs == { d \in SeqsUpTo([k : DocKeys, v : DocValues], MaxDocKeys) : DistinctKeys(d) }
Payloads == SeqsUpTo(PayloadBytes, MaxPayloadLen)

NoResult == [status |-> "none", json |-> << >>, bin |-> << >>]

CodecIdle == c_doc = << >> /\ c_payload = << >> /\ file = << >> /\ dec = NoResult /\ cpc = "idle"

CodecInit ==
    /\ c_doc \in Docs
    /\ c_payload \in Payloads
    /\ file = << >>
    /\ dec = NoResult
    /\ cpc = "start"

CodecEncode ==
    /\ cpc = "start"
    /\ file' = write_glb(c_doc, c_payload)
    /\ cpc' = "written"
    /\ UNCHANGED << c_doc, c_payload, dec, appendVars, readVars, pipeVars >>

\* The fields of a container's header and chunk headers, as read_glb unpacks them.
Magic(f) == FromU32LE(SubSeq(f, 1, 4))
Version(f) == FromU32LE(SubSeq(f, 5, 8))
DeclaredLength(f) == FromU32LE(SubSeq(f, 9, 12))
JsonChunkLen(f) == FromU32LE(SubSeq(f, 13, 16))
BinChunkLen(f) == FromU32LE(SubSeq(f, 21 + JsonChunkLen(f), 24 + JsonChunkLen(f)))

\* The file with the 4 bytes at byte offset pos replaced by the little-endian n.
PutU32(f, pos, n) ==
    [k \in 1..Len(f) |-> IF k > pos /\ k <= pos + 4 THEN U32LE(n)[k - pos] ELSE f[k]]

\* read_glb opens whatever file is at the path: a container from another writer
\* may carry another version, or chunk lengths that do not fit its total length.
\* "no_bin" is the container without its binary chunk, "two_bin" the container
\* with a second binary chunk after the first; both declare their true length.
ForeignKinds == {"version1", "version3", "json_len", "bin_len", "length", "no_bin", "two_bin"}
SecondChunk == U32LE(4) \o U32LE(CHUNK_BIN) \o << 9, 9, 9, 9 >>
Foreign(f, kind) ==
    IF kind = "no_bin"
    THEN LET end == HEADER_LEN + CHUNK_HEADER_LEN + JsonChunkLen(f) IN
         PutU32(SubSeq(f, 1, end), 8, end)
    ELSE IF kind = "two_bin"
    THEN PutU32(f \o SecondChunk, 8, Len(f) + Len(SecondChunk))
    ELSE IF kind = "version1" THEN PutU32(f, 4, 1)
    ELSE IF kind = "version3" THEN PutU32(f, 4, 3)
    ELSE IF kind = "json_len" THEN PutU32(f, 12, DeclaredLength(f))
    ELSE IF kind = "bin_len" THEN PutU32(f, 20 + JsonChunkLen(f), BinChunkLen(f) + 4)
    ELSE PutU32(f, 8, DeclaredLength(f) - 4)

CodecForeign ==
    /\ cpc = "written"
    /\ \E kind \in ForeignKinds : file' = Foreign(file, kind)
    /\ cpc' = "foreign"
    /\ UNCHANGED << c_doc, c_payload, dec, appendVars, readVars, pipeVars >>

CodecDecode ==
    /\ cpc \in {"written", "foreign"}
    /\ dec' = read_glb(file)
    /\ cpc' = IF cpc = "written" THEN "read" ELSE "readforeign"
    /\ UNCHANGED << c_doc, c_payload, file, appendVars, readVars, pipeVars >>

CodecNext == CodecEncode \/ CodecForeign \/ CodecDecode

\* ---------------------------------------------------- pipeline: the inputs
\* Vertex positions are drawn from this list (whole units, as words); the first
\* three are the single-triangle mesh.
VertexPool ==
    << << 0, 0, 0 >>, << FScale, 0, 0 >>, << 0, FScale, 0 >>,
       << FScale, 2 * FScale, FScale >>, << 2 * FScale, FScale, 0 >> >>

FlatPositions(nverts) == [n \in 1..(3 * nverts) |-> VertexPool[((n - 1) \div 3) + 1][((n - 1) % 3) + 1]]

\* The binary chunk of an input: lead bytes of another view, the packed
\* positions, extra trailing bytes.
InputPayload(lead, nverts, extra) ==
    [n \in 1..lead |-> 7] \o PackWords(FlatPositions(nverts), 4) \o [n \in 1..extra |-> 9]

\* The shapes of input document: where the mesh node is ("mesh": node 0,
\* "group": node 1 under a group node, "nomesh": no node has a mesh), whether
\* skins and animations exist, and what scenes holds ("absent", "empty",
\* "nonodes": a scene without a nodes key, "nodes": a scene listing node 0).
DocShapes ==
    { [layout |-> "mesh", skins |-> FALSE, anims |-> FALSE, scenes |-> "absent", lead |-> 0],
      [layout |-> "group", skins |-> TRUE, anims |-> TRUE, scenes |-> "nodes", lead |-> 4],
      [layout |-> "mesh", skins |-> FALSE, anims |-> TRUE, scenes |-> "nonodes", lead |-> 0],
      [layout |-> "mesh", skins |-> TRUE, anims |-> FALSE, scenes |-> "empty", lead |-> 2],
      [layout |-> "nomesh", skins |-> FALSE, anims |-> FALSE, scenes |-> "nodes", lead |-> 0] }

InputDoc(shape, nverts, extra) ==
    LET meshNode == IF shape.skins THEN [mesh |-> 0, skin |-> 0] ELSE [mesh |-> 0]
        nodes == IF shape.layout = "mesh" THEN << meshNode >>
                 ELSE IF shape.layout = "group"
                      THEN << [name |-> "group", children |-> << 1 >>], meshNode >>
                      ELSE << [name |-> "empty"] >>
        view == IF shape.lead > 0
                THEN [buffer |-> 0, byteOffset |-> shape.lead, byteLength |-> 12 * nverts]
                ELSE [buffer |-> 0, byteLength |-> 12 * nverts]
        prim == [attributes |-> [POSITION |-> 0]]
        \* the "group" document has a second primitive, a second mesh and a
        \* second buffer next to the ones the run works on
        meshes == IF shape.layout = "group"
                  THEN << [primitives |-> << prim, [attributes |-> [POSITION |-> 0], mode |-> 1] >>],
                          [primitives |-> << prim >>, name |-> "other"] >>
                  ELSE << [primitives |-> << prim >>] >>
        buffer0 == [byteLength |-> shape.lead + 12 * nverts + extra]
        base == [nodes |-> nodes,
                 meshes |-> meshes,
                 accessors |-> << [bufferView |-> 0, componentType |-> FLOAT,
                                   count |-> nverts, type |-> "VEC3"] >>,
                 bufferViews |-> << view >>,
                 buffers |-> IF shape.layout = "group"
                             THEN << buffer0, [byteLength |-> 4, uri |-> "other.bin"] >>
                             ELSE << buffer0 >>]
        withSkins == IF shape.skins THEN DictPut(base, "skins", << [joints |-> << 0 >>] >>)
                     ELSE base
        withAnims == IF shape.anims
                     THEN DictPut(withSkins, "animations",
                            << [name |-> "Old",
                                samplers |-> << [input |-> 0, output |-> 0,
                                                 interpolation |-> "LINEAR"] >>,
                                channels |-> << [sampler |-> 0,
                                                 target |-> [node |-> 0, path |-> "translation"]] >>] >>)
                     ELSE withSkins
    IN IF shape.scenes = "absent" THEN withAnims
       ELSE IF shape.scenes = "empty" THEN DictPut(withAnims, "scenes", << >>)
       ELSE IF shape.scenes = "nonodes" THEN DictPut(withAnims, "scenes", << [name |-> "Scene"] >>)
       ELSE DictPut(withAnims, "scenes", << [nodes |-> << 0 >>], [nodes |-> << 0 >>, name |-> "Alt"] >>)

\* The container at input_path: its magic tag, its document chunk (parsed) and
\* its binary chunk.
Inputs ==
    { [magic |-> m, json |-> InputDoc(shape, nverts, extra),
       bin |-> InputPayload(shape.lead, nverts, extra)] :
        m \in {GLB_MAGIC, CHUNK_BIN}, shape \in DocShapes,
        nverts \in 0..MaxVerts, extra \in 0..MaxExtra }

NoDoc == [nodes |-> << >>, meshes |-> << >>, accessors |-> << >>,
          bufferViews |-> << >>, buffers |-> << >>]
NoFile == [magic |-> 0, json |-> NoDoc, bin |-> << >>]
\* The file at output_path: whether the run has created (or truncated) it, how
\* many of write_glb's five f.write calls have completed, and the magic tag, the
\* document chunk and the binary chunk written so far.
NoOutput == [exists |-> FALSE, written |-> 0, magic |-> 0, json |-> NoDoc, bin |-> << >>]
NoLoc == [i |-> 0, a |-> 0, c |-> 0,
          base_accessor_idx |-> 0, base_buffer_view_idx |-> 0, base_node_idx |-> 0,
          offset |-> 0, size |-> 0, bv_idx |-> 0, acc_idx |-> 0,
          ibm_accessor_idx |-> 0, skin_idx |-> 0, times_acc_idx |-> 0, values_acc_idx |-> 0]

PipeStart(in, at) ==
    /\ pc = at /\ err = "" /\ input = in /\ output = NoOutput
    /\ gltf = NoDoc /\ bin_data = << >> /\ mesh_node_idx = -1
    /\ positions = << >> /\ bones = << >> /\ joints_data = << >> /\ weights_data = << >>
    /\ animations = << >> /\ joint_node_indices = << >> /\ loc = NoLoc
    /\ samplers = << >> /\ anim_channels = << >> /\ regions = << >>

PipeIdle == PipeStart(NoFile, "idle")
PipeInit == \E in \in Inputs : PipeStart(in, "Load")

\* ------------------------------------------------ add_skeleton_to_glb: steps
\* Mutant: the exception is recorded and the run goes on to write its output.
Fail_continue(why) ==
    /\ pc' = "Encode"
    /\ err' = why

\* An exception leaves add_skeleton_to_glb: nothing catches it, the run ends.
Fail(why) ==
    /\ pc' = "error"
    /\ err' = why

\* gltf, bin_data = read_glb(input_path); bin_data = bytearray(bin_data).
\* The container is read chunk by chunk as read_glb does: a wrong magic tag ends
\* the run with ValueError before anything else is read.
\* Mutant: the container is loaded whatever its magic tag.
Load_unchecked ==
    /\ pc = "Load"
    /\ gltf' = input.json
    /\ bin_data' = input.bin
    /\ pc' = "LocateMesh"
    /\ UNCHANGED << codecVars, appendVars, readVars, err, input, output, mesh_node_idx, positions, bones,
                    joints_data, weights_data, animations, joint_node_indices, loc,
                    samplers, anim_channels, regions >>

Load ==
    /\ pc = "Load"
    /\ IF input.magic # GLB_MAGIC
       THEN Fail("ValueError: Not a valid GLB file") /\ UNCHANGED << gltf, bin_data >>
       ELSE /\ gltf' = input.json
            /\ bin_data' = input.bin
            /\ pc' = "LocateMesh"
            /\ UNCHANGED err
    /\ UNCHANGED << codecVars, appendVars, readVars, input, output, mesh_node_idx, positions, bones, joints_data, weights_data,
                    animations, joint_node_indices, loc, samplers, anim_channels, regions >>

\* The first node with a 'mesh' key, or ValueError("No mesh found in model").
MeshNodes == { n \in 0..(Len(gltf.nodes) - 1) : "mesh" \in DOMAIN Item(gltf.nodes, n) }
\* Mutant: with the mesh found the run goes straight to the skeleton.
LocateMesh_skipping ==
    /\ pc = "LocateMesh"
    /\ IF MeshNodes = {}
       THEN Fail("ValueError: No mesh found in model") /\ UNCHANGED mesh_node_idx
       ELSE /\ mesh_node_idx' = CHOOSE n \in MeshNodes : \A m \in MeshNodes : n <= m
            /\ pc' = "BuildSkeleton"
            /\ UNCHANGED err
    /\ UNCHANGED << codecVars, appendVars, readVars, input, output, gltf, bin_data, positions, bones, joints_data, weights_data,
                    animations, joint_node_indices, loc, samplers, anim_channels, regions >>

LocateMesh ==
    /\ pc = "LocateMesh"
    /\ IF MeshNodes = {}
       THEN Fail("ValueError: No mesh found in model") /\ UNCHANGED mesh_node_idx
       ELSE /\ mesh_node_idx' = CHOOSE n \in MeshNodes : \A m \in MeshNodes : n <= m
            /\ pc' = "ExtractPositions"
            /\ UNCHANGED err
    /\ UNCHANGED << codecVars, appendVars, readVars, input, output, gltf, bin_data, positions, bones, joints_data, weights_data,
                    animations, joint_node_indices, loc, samplers, anim_channels, regions >>

\* primitive = gltf['meshes'][mesh_idx]['primitives'][0]
MeshIdx == Item(gltf.nodes, mesh_node_idx).mesh
Primitive == Item(Item(gltf.meshes, MeshIdx).primitives, 0)

\* positions = get_accessor_data(gltf, bin_data, primitive['attributes']['POSITION'])
ExtractPositions ==
    /\ pc = "ExtractPositions"
    /\ LET r == get_accessor_data(gltf, bin_data, Primitive.attributes.POSITION) IN
       IF r.status # "ok"
       THEN Fail(r.status) /\ UNCHANGED positions
       ELSE /\ positions' = r.data
            /\ pc' = "BuildSkeleton"
            /\ UNCHANGED err
    /\ UNCHANGED << codecVars, appendVars, readVars, input, output, gltf, bin_data, mesh_node_idx, bones, joints_data,
                    weights_data, animations, joint_node_indices, loc, samplers,
                    anim_channels, regions >>

\* Mutant: an empty vertex set gets a skeleton over zero bounds and the run goes on.
BuildSkeleton_degenerate ==
    /\ pc = "BuildSkeleton"
    /\ bones' = IF Len(positions) = 0
                THEN create_humanoid_skeleton(<< 0, 0, 0 >>, << 0, 0, 0 >>)
                ELSE create_humanoid_skeleton(MinPt(positions), MaxPt(positions))
    /\ pc' = "SolveWeights"
    /\ UNCHANGED << codecVars, appendVars, readVars, err, input, output, gltf, bin_data, mesh_node_idx, positions,
                    joints_data, weights_data, animations, joint_node_indices, loc, samplers,
                    anim_channels, regions >>

\* min_pt, max_pt (numpy raises ValueError on an empty array), then
\* bones = create_humanoid_skeleton((min_pt, max_pt)).
BuildSkeleton ==
    /\ pc = "BuildSkeleton"
    /\ IF Len(positions) = 0
       THEN Fail("ValueError: zero-size array") /\ UNCHANGED bones
       ELSE /\ bones' = create_humanoid_skeleton(MinPt(positions), MaxPt(positions))
            /\ pc' = "SolveWeights"
            /\ UNCHANGED err
    /\ UNCHANGED << codecVars, appendVars, readVars, input, output, gltf, bin_data, mesh_node_idx, positions, joints_data,
                    weights_data, animations, joint_node_indices, loc, samplers,
                    anim_channels, regions >>

\* joints_data, weights_data = compute_skin_weights(positions, bones)
SolveWeights ==
    /\ pc = "SolveWeights"
    /\ \E tie \in {"asc", "desc"} :
          LET r == compute_skin_weights(positions, bones, tie) IN
          /\ joints_data' = r.joints
          /\ weights_data' = r.weights
    /\ pc' = "CreateAnimations"
    /\ UNCHANGED << codecVars, appendVars, readVars, err, input, output, gltf, bin_data, mesh_node_idx, positions, bones,
                    animations, joint_node_indices, loc, samplers, anim_channels, regions >>

\* animations = create_animations(bones, mesh_height); then the three base
\* indices and joint_node_indices = [].
CreateAnimations ==
    /\ pc = "CreateAnimations"
    /\ animations' = create_animations
    /\ loc' = [loc EXCEPT !.base_accessor_idx = Len(gltf.accessors),
                          !.base_buffer_view_idx = Len(gltf.bufferViews),
                          !.base_node_idx = Len(gltf.nodes),
                          !.i = 0]
    /\ joint_node_indices' = << >>
    /\ pc' = "AddJointNodes"
    /\ UNCHANGED << codecVars, appendVars, readVars, err, input, output, gltf, bin_data, mesh_node_idx, positions, bones,
                    joints_data, weights_data, samplers, anim_channels, regions >>

\* Mutant: the joints numbered from the last node the input had.
JointNodeIndex_low(base_node_idx, i) == base_node_idx + i - 1

\* joint_node_indices.append(base_node_idx + i)
JointNodeIndex(base_node_idx, i) == base_node_idx + i

\* One pass of the first loop over bones: append the joint's node.
AddJointNode ==
    /\ pc = "AddJointNodes"
    /\ LET bone == Item(bones, loc.i) IN
       gltf' = [gltf EXCEPT !.nodes =
                  Append(@, [name |-> bone.name, translation |-> bone.pos,
                             rotation |-> << 0, 0, 0, 1 >>, scale |-> << 1, 1, 1 >>])]
    /\ joint_node_indices' = Append(joint_node_indices, JointNodeIndex(loc.base_node_idx, loc.i))
    /\ IF loc.i + 1 < Len(bones)
       THEN loc' = [loc EXCEPT !.i = loc.i + 1] /\ pc' = "AddJointNodes"
       ELSE loc' = [loc EXCEPT !.i = 0] /\ pc' = "LinkChildren"
    /\ UNCHANGED << codecVars, appendVars, readVars, err, input, output, bin_data, mesh_node_idx, positions, bones,
                    joints_data, weights_data, animations, samplers, anim_channels, regions >>

\* One pass of the second loop: bone i is put in its parent's children list
\* (created when the parent node has none).
LinkChild ==
    /\ pc = "LinkChildren"
    /\ LET parent_idx == Item(bones, loc.i).parent IN
       IF parent_idx >= 0
       THEN LET at == Item(joint_node_indices, parent_idx)
                parent_node == Item(gltf.nodes, at)
                children == DictGet(parent_node, "children", << >>)
            IN gltf' = [gltf EXCEPT !.nodes =
                          SetItem(@, at, DictPut(parent_node, "children",
                                                 Append(children, Item(joint_node_indices, loc.i))))]
       ELSE UNCHANGED gltf
    /\ IF loc.i + 1 < Len(bones)
       THEN loc' = [loc EXCEPT !.i = loc.i + 1] /\ pc' = "LinkChildren"
       ELSE loc' = [loc EXCEPT !.i = 0] /\ pc' = "AppendIBM"
    /\ UNCHANGED << codecVars, appendVars, readVars, err, input, output, bin_data, mesh_node_idx, positions, bones,
                    joints_data, weights_data, animations, joint_node_indices, samplers,
                    anim_channels, regions >>

\* The frame of a step that grows the payload, and of one that edits the document.
AppendFrame ==
    UNCHANGED << codecVars, appendVars, readVars, err, input, output, gltf, mesh_node_idx, positions, bones, joints_data,
                 weights_data, animations, joint_node_indices, samplers, anim_channels >>
DocFrame ==
    UNCHANGED << codecVars, appendVars, readVars, err, input, output, bin_data, mesh_node_idx, positions, bones, joints_data,
                 weights_data, animations, joint_node_indices, samplers, anim_channels, regions >>

\* offset, size = add_to_buffer(bin_data, data, dtype)
AppendStep(at, next, data, dtype) ==
    /\ pc = at
    /\ LET r == add_to_buffer(bin_data, data, dtype) IN
       /\ bin_data' = r.bin
       /\ loc' = [loc EXCEPT !.offset = r.offset, !.size = r.length]
       /\ regions' = Append(regions, [offset |-> r.offset, length |-> r.length])
    /\ pc' = next
    /\ AppendFrame

\* bv_idx = len(gltf['bufferViews']); gltf['bufferViews'].append(view)
AddBufferViewStep(at, next, view) ==
    /\ pc = at
    /\ loc' = [loc EXCEPT !.bv_idx = Len(gltf.bufferViews)]
    /\ gltf' = [gltf EXCEPT !.bufferViews = Append(@, view)]
    /\ pc' = next
    /\ DocFrame

PlainView == [buffer |-> 0, byteOffset |-> loc.offset, byteLength |-> loc.size]
StridedView(stride) ==
    [buffer |-> 0, byteOffset |-> loc.offset, byteLength |-> loc.size, byteStride |-> stride]

\* ibm = [1,0,0,0, 0,1,0,0, 0,0,1,0, -pos[0],-pos[1],-pos[2],1] for each bone
InverseBindMatrices(bns) ==
    [n \in 1..(16 * Len(bns)) |->
       LET pos == bns[((n - 1) \div 16) + 1].pos
           k == (n - 1) % 16
       IN IF k \in {0, 5, 10, 15} THEN FScale
          ELSE IF k >= 12 THEN -pos[k - 11]
          ELSE 0]

AppendIBM == AppendStep("AppendIBM", "AddIbmBufferView", InverseBindMatrices(bones), "f")
AddIbmBufferView == AddBufferViewStep("AddIbmBufferView", "AddIbmAccessor", PlainView)

\* Mutant: the accessor names the buffer view that will be appended next.
IbmAccessor_next ==
    [bufferView |-> loc.bv_idx + 1, componentType |-> FLOAT, count |-> Len(bones), type |-> "MAT4"]
IbmAccessor ==
    [bufferView |-> loc.bv_idx, componentType |-> FLOAT, count |-> Len(bones), type |-> "MAT4"]

AddIbmAccessor ==
    /\ pc = "AddIbmAccessor"
    /\ loc' = [loc EXCEPT !.ibm_accessor_idx = Len(gltf.accessors)]
    /\ gltf' = [gltf EXCEPT !.accessors = Append(@, IbmAccessor)]
    /\ pc' = "AddSkin"
    /\ DocFrame

\* skin_idx = len(gltf.get('skins', [])); gltf['skins'].append({...})
AddSkin ==
    /\ pc = "AddSkin"
    /\ loc' = [loc EXCEPT !.skin_idx = Len(DictGet(gltf, "skins", << >>))]
    /\ gltf' = DictPut(gltf, "skins",
                 Append(DictGet(gltf, "skins", << >>),
                        [inverseBindMatrices |-> loc.ibm_accessor_idx,
                         joints |-> joint_node_indices,
                         skeleton |-> Item(joint_node_indices, 0),
                         name |-> "Armature"]))
    /\ pc' = "SetNodeSkin"
    /\ DocFrame

\* gltf['nodes'][mesh_node_idx]['skin'] = skin_idx
SetNodeSkin ==
    /\ pc = "SetNodeSkin"
    /\ gltf' = [gltf EXCEPT !.nodes =
                  SetItem(@, mesh_node_idx,
                          DictPut(Item(gltf.nodes, mesh_node_idx), "skin", loc.skin_idx))]
    /\ pc' = "AppendJoints"
    /\ UNCHANGED loc
    /\ DocFrame

\* An accessor over the per-vertex 4-vectors of the given component type.
VertexAccessor(ctype) ==
    [bufferView |-> loc.bv_idx, componentType |-> ctype, count |-> Len(positions), type |-> "VEC4"]

AddAccessorStep(at, next, accessor) ==
    /\ pc = at
    /\ loc' = [loc EXCEPT !.acc_idx = Len(gltf.accessors)]
    /\ gltf' = [gltf EXCEPT !.accessors = Append(@, accessor)]
    /\ pc' = next
    /\ DocFrame

\* primitive['attributes'][name] = acc_idx (primitive aliases the document).
SetAttributeStep(at, next, name) ==
    /\ pc = at
    /\ gltf' = [gltf EXCEPT !.meshes =
                  SetItem(@, MeshIdx,
                    [Item(gltf.meshes, MeshIdx) EXCEPT !.primitives =
                       SetItem(@, 0, [Primitive EXCEPT !.attributes =
                                        DictPut(@, name, loc.acc_idx)])])]
    /\ pc' = next
    /\ UNCHANGED loc
    /\ DocFrame

AppendJoints == AppendStep("AppendJoints", "AddJointsBufferView", joints_data, "B")
AddJointsBufferView == AddBufferViewStep("AddJointsBufferView", "AddJointsAccessor", StridedView(4))
AddJointsAccessor == AddAccessorStep("AddJointsAccessor", "SetJointsAttr", VertexAccessor(UNSIGNED_BYTE))
SetJointsAttr == SetAttributeStep("SetJointsAttr", "AppendWeights", "JOINTS_0")

AppendWeights == AppendStep("AppendWeights", "AddWeightsBufferView", weights_data, "f")
AddWeightsBufferView == AddBufferViewStep("AddWeightsBufferView", "AddWeightsAccessor", StridedView(16))
AddWeightsAccessor == AddAccessorStep("AddWeightsAccessor", "SetWeightsAttr", VertexAccessor(FLOAT))
SetWeightsAttr == SetAttributeStep("SetWeightsAttr", "InitAnimations", "WEIGHTS_0")

\* if 'animations' not in gltf: gltf['animations'] = []; then the first clip's
\* samplers = [] and anim_channels = [].
InitAnimations ==
    /\ pc = "InitAnimations"
    /\ gltf' = DictPut(gltf, "animations", DictGet(gltf, "animations", << >>))
    /\ loc' = [loc EXCEPT !.a = 0, !.c = 0]
    /\ samplers' = << >>
    /\ anim_channels' = << >>
    /\ pc' = "AppendTimes"
    /\ UNCHANGED << codecVars, appendVars, readVars, err, input, output, bin_data, mesh_node_idx, positions, bones, joints_data,
                    weights_data, animations, joint_node_indices, regions >>

CurAnim == Item(animations, loc.a)
CurChannel == Item(CurAnim.channels, loc.c)

SeqMin(q) == CHOOSE m \in { q[n] : n \in 1..Len(q) } : \A n \in 1..Len(q) : m <= q[n]
SeqMax(q) == CHOOSE m \in { q[n] : n \in 1..Len(q) } : \A n \in 1..Len(q) : m >= q[n]

AppendTimes == AppendStep("AppendTimes", "AddTimesBufferView", CurChannel.times, "f")
AddTimesBufferView == AddBufferViewStep("AddTimesBufferView", "AddTimesAccessor", PlainView)
AddTimesAccessor ==
    /\ pc = "AddTimesAccessor"
    /\ loc' = [loc EXCEPT !.times_acc_idx = Len(gltf.accessors)]
    /\ gltf' = [gltf EXCEPT !.accessors =
                  Append(@, [bufferView |-> loc.bv_idx, componentType |-> FLOAT,
                             count |-> Len(CurChannel.times), type |-> "SCALAR",
                             min |-> << SeqMin(CurChannel.times) >>,
                             max |-> << SeqMax(CurChannel.times) >>])]
    /\ pc' = "AppendValues"
    /\ DocFrame

AppendValues == AppendStep("AppendValues", "AddValuesBufferView", CurChannel.values, "f")
AddValuesBufferView == AddBufferViewStep("AddValuesBufferView", "AddValuesAccessor", PlainView)
AddValuesAccessor ==
    /\ pc = "AddValuesAccessor"
    /\ loc' = [loc EXCEPT !.values_acc_idx = Len(gltf.accessors)]
    /\ gltf' = [gltf EXCEPT !.accessors =
                  Append(@, [bufferView |-> loc.bv_idx, componentType |-> FLOAT,
                             count |-> Len(CurChannel.times),
                             type |-> IF CurChannel.path = "rotation" THEN "VEC4" ELSE "VEC3"])]
    /\ pc' = "AddSampler"
    /\ DocFrame

ClipFrame ==
    UNCHANGED << codecVars, appendVars, readVars, err, input, output, gltf, bin_data, mesh_node_idx, positions, bones,
                 joints_data, weights_data, animations, joint_node_indices, regions >>

\* sampler_idx = len(samplers); samplers.append({...})
AddSampler ==
    /\ pc = "AddSampler"
    /\ samplers' = Append(samplers, [input |-> loc.times_acc_idx, output |-> loc.values_acc_idx,
                                     interpolation |-> "LINEAR"])
    /\ pc' = "AddChannel"
    /\ UNCHANGED << loc, anim_channels >>
    /\ ClipFrame

\* anim_channels.append({...}); then the next channel, or the end of the clip.
AddChannel ==
    /\ pc = "AddChannel"
    /\ anim_channels' =
          Append(anim_channels,
                 [sampler |-> Len(samplers) - 1,
                  target |-> [node |-> Item(joint_node_indices, CurChannel.bone_idx),
                              path |-> CurChannel.path]])
    /\ IF loc.c + 1 < Len(CurAnim.channels)
       THEN loc' = [loc EXCEPT !.c = loc.c + 1] /\ pc' = "AppendTimes"
       ELSE UNCHANGED loc /\ pc' = "AddAnimation"
    /\ UNCHANGED samplers
    /\ ClipFrame

\* gltf['animations'].append({...}); then the next clip, or the end of the loop.
AddAnimation ==
    /\ pc = "AddAnimation"
    /\ gltf' = [gltf EXCEPT !.animations =
                  Append(@, [name |-> CurAnim.name, samplers |-> samplers,
                             channels |-> anim_channels])]
    /\ IF loc.a + 1 < Len(animations)
       THEN /\ loc' = [loc EXCEPT !.a = loc.a + 1, !.c = 0]
            /\ samplers' = << >>
            /\ anim_channels' = << >>
            /\ pc' = "AppendTimes"
       ELSE /\ UNCHANGED << loc, samplers, anim_channels >>
            /\ pc' = "UpdateBufferSize"
    /\ UNCHANGED << codecVars, appendVars, readVars, err, input, output, bin_data, mesh_node_idx, positions, bones, joints_data,
                    weights_data, animations, joint_node_indices, regions >>

\* Mutant: the buffer keeps the byte length the input declared.
UpdateBufferSize_stale ==
    /\ pc = "UpdateBufferSize"
    /\ pc' = "AddRootToScene"
    /\ UNCHANGED << gltf, loc >>
    /\ DocFrame

\* gltf['buffers'][0]['byteLength'] = len(bin_data)
UpdateBufferSize ==
    /\ pc = "UpdateBufferSize"
    /\ gltf' = [gltf EXCEPT !.buffers =
                  SetItem(@, 0, DictPut(Item(gltf.buffers, 0), "byteLength", Len(bin_data)))]
    /\ pc' = "AddRootToScene"
    /\ UNCHANGED loc
    /\ DocFrame

InList(list, x) == \E n \in 1..Len(list) : list[n] = x

\* Mutant: the root joint is put in the node list of the last scene.
AddRootToScene_last ==
    /\ pc = "AddRootToScene"
    /\ LET root_skeleton_node == Item(joint_node_indices, 0) IN
       IF "scenes" \in DOMAIN gltf /\ Len(gltf.scenes) > 0
       THEN LET scene == Item(gltf.scenes, Len(gltf.scenes) - 1)
                nodes == DictGet(scene, "nodes", << >>)
            IN gltf' = [gltf EXCEPT !.scenes =
                          SetItem(@, Len(gltf.scenes) - 1, DictPut(scene, "nodes",
                                    IF InList(nodes, root_skeleton_node) THEN nodes
                                    ELSE Append(nodes, root_skeleton_node)))]
       ELSE UNCHANGED gltf
    /\ pc' = "Encode"
    /\ UNCHANGED loc
    /\ DocFrame

\* The root joint is put in scene 0's node list when a scene exists and does not
\* list it yet.
AddRootToScene ==
    /\ pc = "AddRootToScene"
    /\ LET root_skeleton_node == Item(joint_node_indices, 0) IN
       IF "scenes" \in DOMAIN gltf /\ Len(gltf.scenes) > 0
       THEN LET scene == Item(gltf.scenes, 0)
                nodes == DictGet(scene, "nodes", << >>)
            IN gltf' = [gltf EXCEPT !.scenes =
                          SetItem(@, 0, DictPut(scene, "nodes",
                                    IF InList(nodes, root_skeleton_node) THEN nodes
                                    ELSE Append(nodes, root_skeleton_node)))]
       ELSE UNCHANGED gltf
    /\ pc' = "Encode"
    /\ UNCHANGED loc
    /\ DocFrame

\* write_glb(output_path, gltf, bytes(bin_data)), up to open(path, 'wb'): the
\* document is serialized and both chunks are padded in memory, then the file is
\* created, or truncated if it exists.  open can raise OSError.
Encode ==
    /\ pc = "Encode"
    /\ \E ok \in BOOLEAN :
          IF ok
          THEN /\ output' = [NoOutput EXCEPT !.exists = TRUE]
               /\ pc' = "Write"
               /\ UNCHANGED err
          ELSE Fail("OSError") /\ UNCHANGED output
    /\ UNCHANGED << codecVars, appendVars, readVars, input, gltf, bin_data, mesh_node_idx, positions, bones, joints_data,
                    weights_data, animations, joint_node_indices, loc, samplers,
                    anim_channels, regions >>

\* One f.write of write_glb, the k-th of five: it puts its bytes in the file, or
\* raises OSError and leaves the file as the earlier writes made it.  The with
\* block closes the file after the last write.
WriteStep(k, written) ==
    /\ pc = "Write"
    /\ output.written = k - 1
    /\ \E ok \in BOOLEAN :
          IF ok
          THEN /\ output' = [written EXCEPT !.written = k]
               /\ pc' = IF k = 5 THEN "done" ELSE "Write"
               /\ UNCHANGED err
          ELSE Fail("OSError") /\ UNCHANGED output
    /\ UNCHANGED << codecVars, appendVars, readVars, input, gltf, bin_data, mesh_node_idx, positions, bones, joints_data,
                    weights_data, animations, joint_node_indices, loc, samplers,
                    anim_channels, regions >>

\* f.write(struct.pack('<III', 0x46546C67, 2, total_length))
WriteHeader == WriteStep(1, [output EXCEPT !.magic = GLB_MAGIC])
\* f.write(struct.pack('<II', len(json_str), 0x4E4F534A))
WriteJsonHeader == WriteStep(2, output)
\* f.write(json_str)
WriteJson == WriteStep(3, [output EXCEPT !.json = gltf])
\* f.write(struct.pack('<II', len(bin_data), 0x004E4942))
WriteBinHeader == WriteStep(4, output)
\* f.write(bytes(bin_data)): the payload padded as write_glb pads it.
WriteBin == WriteStep(5, [output EXCEPT !.bin = PadBin(bin_data)])

PipeNext ==
    \/ Load \/ LocateMesh \/ ExtractPositions \/ BuildSkeleton \/ SolveWeights
    \/ CreateAnimations \/ AddJointNode \/ LinkChild
    \/ AppendIBM \/ AddIbmBufferView \/ AddIbmAccessor \/ AddSkin \/ SetNodeSkin
    \/ AppendJoints \/ AddJointsBufferView \/ AddJointsAccessor \/ SetJointsAttr
    \/ AppendWeights \/ AddWeightsBufferView \/ AddWeightsAccessor \/ SetWeightsAttr
    \/ InitAnimations
    \/ AppendTimes \/ AddTimesBufferView \/ AddTimesAccessor
    \/ AppendValues \/ AddValuesBufferView \/ AddValuesAccessor
    \/ AddSampler \/ AddChannel \/ AddAnimation
    \/ UpdateBufferSize \/ AddRootToScene \/ Encode
    \/ WriteHeader \/ WriteJsonHeader \/ WriteJson \/ WriteBinHeader \/ WriteBin

\* ----------------------------------------------------- append specification
NoRet == [offset |-> 0, length |-> 0]
AppendIdle == a_bin = << >> /\ a_before = 0 /\ a_ret = NoRet /\ a_calls = 0

\* The values a call may pass, per dtype (floats as fixed-point words).
AppendData(dtype) ==
    IF dtype = "f" THEN SeqsUpTo({-30000}, MaxValues)
    ELSE IF dtype = "H" THEN SeqsUpTo({513}, MaxValues)
    ELSE SeqsUpTo({9}, MaxValues)

AppendInit ==
    /\ a_bin \in { q \in SeqsUpTo({7}, MaxInitLen) : TRUE }
    /\ a_before = 0
    /\ a_ret = NoRet
    /\ a_calls = 0

AppendCall(dtype) ==
    /\ a_calls < MaxAppends
    /\ \E data \in AppendData(dtype) :
          LET r == add_to_buffer(a_bin, data, dtype) IN
          /\ a_bin' = r.bin
          /\ a_ret' = [offset |-> r.offset, length |-> r.length]
    /\ a_before' = Len(a_bin)
    /\ a_calls' = a_calls + 1
    /\ UNCHANGED << codecVars, readVars, pipeVars >>

AppendFloats == AppendCall("f")
AppendShorts == AppendCall("H")
AppendBytes == AppendCall("B")
AppendRaw == AppendCall("raw")

AppendNext == AppendFloats \/ AppendShorts \/ AppendBytes \/ AppendRaw

\* ------------------------------------------------------- read specification
\* Component-type codes: the six of component_types, and 5124 (INT) and 5130
\* which it lacks; shape names: the five of type_counts, and MAT3 which it lacks.
ReadComponentTypes == {5120, 5121, 5122, 5123, 5125, 5126, 5124, 5130}
ReadTypes == {"SCALAR", "VEC2", "VEC3", "VEC4", "MAT4", "MAT3"}
\* byteOffset of the view and of the accessor: the key absent (written -1 here),
\* or a value up to past the end of the payload.
ReadOffsets == {-1, 0, 2, 4, MaxReadLen + 4}
\* The payload: n bytes, some of them above 127.
ReadPayload(n) == [k \in 1..n |-> (k * 67) % 256]

WithOffset(rec, off) == IF off < 0 THEN rec ELSE DictPut(rec, "byteOffset", off)
\* byteStride of the view: the key absent (written -1 here), or 4.
ReadStrides == {-1, 4}
WithStride(rec, stride) == IF stride < 0 THEN rec ELSE DictPut(rec, "byteStride", stride)

NoRead == [status |-> "none", data |-> << >>]
ReadIdle ==
    /\ r_acc = [bufferView |-> 0] /\ r_view = [buffer |-> 0]
    /\ r_bin = << >> /\ r_ret = NoRead /\ rpc = "idle"

ReadInit ==
    /\ \E ctype \in ReadComponentTypes, type \in ReadTypes, count \in 0..MaxCount,
          off \in ReadOffsets :
          r_acc = WithOffset([bufferView |-> 0, componentType |-> ctype,
                              count |-> count, type |-> type], off)
    /\ \E off \in {-1, 0, 4}, stride \in ReadStrides :
          r_view = WithStride(WithOffset([buffer |-> 0], off), stride)
    /\ \E n \in 0..MaxReadLen : r_bin = ReadPayload(n)
    /\ r_ret = NoRead
    /\ rpc = "start"

ReadDoc == [accessors |-> << r_acc >>, bufferViews |-> << r_view >>]

ReadAccessor ==
    /\ rpc = "start"
    /\ r_ret' = get_accessor_data(ReadDoc, r_bin, 0)
    /\ rpc' = "read"
    /\ UNCHANGED << r_acc, r_view, r_bin, codecVars, appendVars, pipeVars >>

ReadNext == ReadAccessor

vars == << codecVars, appendVars, readVars, pipeVars >>

InitCodec == CodecInit /\ AppendIdle /\ ReadIdle /\ PipeIdle
Init == PipeInit /\ CodecIdle /\ AppendIdle /\ ReadIdle
InitAppend == AppendInit /\ CodecIdle /\ ReadIdle /\ PipeIdle
InitRead == ReadInit /\ CodecIdle /\ AppendIdle /\ PipeIdle

SpecCodec == InitCodec /\ [][CodecNext]_vars
Spec == Init /\ [][PipeNext]_vars
SpecAppend == InitAppend /\ [][AppendNext]_vars
SpecRead == InitRead /\ [][ReadNext]_vars

\* ------------------------------------------------------------ codec claims
AllEqual(q, x) == \A n \in 1..Len(q) : q[n] = x
IsPrefix(p, q) == Len(p) <= Len(q) /\ SubSeq(q, 1, Len(p)) = p
Rest(q, n) == SubSeq(q, n + 1, Len(q))

\* Equality of dicts: the same keys with the same values, in any order.
DocEquiv(d1, d2) ==
    /\ Len(d1) = Len(d2)
    /\ { << d1[n].k, d1[n].v >> : n \in 1..Len(d1) } = { << d2[n].k, d2[n].v >> : n \in 1..Len(d2) }

\* C1: decoding what encode wrote for (D, P) succeeds and returns a document
\* equivalent to D and a payload that is P followed only by the 0..3 zero bytes
\* that pad P to a multiple of 4, for the empty P too.
C1_RoundTrip ==
    cpc = "read" =>
        /\ dec.status = "ok"
        /\ DocEquiv(dec.json, c_doc)
        /\ IsPrefix(c_payload, dec.bin)
        /\ Len(dec.bin) - Len(c_payload) \in 0..3
        /\ Len(dec.bin) % 4 = 0
        /\ AllEqual(Rest(dec.bin, Len(c_payload)), ZERO)

C1_Witness ==
    /\ cpc = "read" /\ dec.status = "ok"
    /\ Len(c_doc) = 2 /\ dec.json = c_doc
    /\ Len(c_payload) = 5 /\ Len(dec.bin) = 8

\* C2: the total-length field of the header (bytes 8..11, little-endian) equals
\* the number of bytes encode emitted.
C2_TotalLength ==
    cpc \in {"written", "read"} =>
        /\ Len(file) >= HEADER_LEN
        /\ FromU32LE(SubSeq(file, 9, 12)) = Len(file)

C2_Witness ==
    /\ cpc = "written" /\ Len(c_payload) = 3 /\ Len(c_doc) = 1
    /\ FromU32LE(SubSeq(file, 9, 12)) = Len(file)
    /\ Len(file) = 12 + 8 + 8 + 8 + 4

\* C3: in the emitted bytes the document chunk declares a length that is a
\* multiple of 4 and holds the serialized document followed only by spaces; the
\* binary chunk declares a length that is a multiple of 4 and holds the payload
\* followed only by zeros; each declared length is the number of body bytes
\* written (the binary chunk header follows the document body at once and the
\* file ends with the binary body).
C3_ChunkLayout ==
    cpc \in {"written", "read"} =>
        LET jlen == FromU32LE(SubSeq(file, 13, 16))
            jbody == SubSeq(file, 21, 20 + jlen)
            text == json_dumps(c_doc)
            blen == FromU32LE(SubSeq(file, 21 + jlen, 24 + jlen))
            bbody == Rest(file, 28 + jlen)
        IN /\ jlen % 4 = 0
           /\ Len(file) >= 28 + jlen
           /\ SubSeq(file, 17, 20) = U32LE(CHUNK_JSON)
           /\ IsPrefix(text, jbody) /\ Len(jbody) - Len(text) \in 0..3
           /\ AllEqual(Rest(jbody, Len(text)), SPACE)
           /\ SubSeq(file, 25 + jlen, 28 + jlen) = U32LE(CHUNK_BIN)
           /\ blen % 4 = 0
           /\ Len(bbody) = blen
           /\ IsPrefix(c_payload, bbody) /\ blen - Len(c_payload) \in 0..3
           /\ AllEqual(Rest(bbody, Len(c_payload)), ZERO)

C3_Witness ==
    /\ cpc = "written"
    /\ Len(json_dumps(c_doc)) % 4 = 3 /\ Len(c_payload) % 4 = 2
    /\ FromU32LE(SubSeq(file, 13, 16)) = Len(json_dumps(c_doc)) + 1
    /\ file[Len(file)] = ZERO /\ file[Len(file) - 2] = 7

\* ----------------------------------------------------------- append claims
\* C4: whatever the payload length before the call, the dtype and the number of
\* values, the offset add_to_buffer returns is a multiple of 4 and is at least
\* the payload length before the call.
C4_AppendAligned ==
    a_calls > 0 => (a_ret.offset % 4 = 0 /\ a_ret.offset >= a_before)

C4_Witness ==
    /\ a_calls = 2 /\ a_before % 4 = 3
    /\ a_ret.offset = a_before + 1 /\ a_ret.length = 2

\* --------------------------------------------------------- pipeline claims
\* The positions of a run in program order (the clip loop returns to
\* AppendTimes), and whether the run is past one of them.
PcOrder ==
    << "Load", "LocateMesh", "ExtractPositions", "BuildSkeleton", "SolveWeights",
       "CreateAnimations", "AddJointNodes", "LinkChildren", "AppendIBM", "AddIbmBufferView",
       "AddIbmAccessor", "AddSkin", "SetNodeSkin", "AppendJoints", "AddJointsBufferView",
       "AddJointsAccessor", "SetJointsAttr", "AppendWeights", "AddWeightsBufferView",
       "AddWeightsAccessor", "SetWeightsAttr", "InitAnimations", "AppendTimes",
       "AddTimesBufferView", "AddTimesAccessor", "AppendValues", "AddValuesBufferView",
       "AddValuesAccessor", "AddSampler", "AddChannel", "AddAnimation", "UpdateBufferSize",
       "AddRootToScene", "Encode", "Write", "done" >>
PcRank(p) == CHOOSE n \in 1..Len(PcOrder) : PcOrder[n] = p
Past(p) == pc \notin {"idle", "error"} /\ PcRank(pc) > PcRank(p)
AtEncode == pc \in {"Encode", "Write", "done"}
RegionEnd(r) == r.offset + r.length
AddedViews == { n \in 1..Len(gltf.bufferViews) : n > loc.base_buffer_view_idx }

\* C5: the regions the add_to_buffer calls of a run returned are pairwise
\* disjoint and disjoint from the bytes [0, len of the input payload); at Encode
\* every buffer view the run added lies inside the payload.
C5_RegionsDisjoint ==
    /\ \A m, n \in 1..Len(regions) :
          m # n => (RegionEnd(regions[m]) <= regions[n].offset
                    \/ RegionEnd(regions[n]) <= regions[m].offset)
    /\ \A n \in 1..Len(regions) : regions[n].offset >= Len(input.bin)
    /\ (AtEncode /\ Len(regions) > 0) =>
          \A n \in AddedViews :
             /\ gltf.bufferViews[n].byteOffset >= 0
             /\ gltf.bufferViews[n].byteOffset + gltf.bufferViews[n].byteLength <= Len(bin_data)

C5_Witness ==
    /\ pc = "done" /\ Len(regions) = 21 /\ Cardinality(AddedViews) = 21
    /\ Len(input.bin) % 4 = 3
    /\ regions[1].offset = Len(input.bin) + 1
    /\ \A n \in 1..Len(regions) : regions[n].length > 0

\* C6: every step of a run after Load keeps the bytes already in the payload,
\* at the same offsets (the payload only grows at its end), and at Encode the
\* input payload is a prefix of the payload.
C6_AppendOnly ==
    /\ [](AtEncode => IsPrefix(input.bin, bin_data))
    /\ [][pc # "Load" => IsPrefix(bin_data, bin_data')]_vars

C6_Witness ==
    /\ pc = "done" /\ Len(input.bin) = 39
    /\ Len(bin_data) > Len(input.bin) /\ IsPrefix(input.bin, bin_data)
    /\ bin_data[39] = 9 /\ bin_data[40] = 0

\* Referential integrity of a document: every index is below the length of the
\* list it indexes.
Below(idx, list) == idx >= 0 /\ idx < Len(list)
AllBelow(idxs, list) == \A n \in 1..Len(idxs) : Below(idxs[n], list)
KeyBelow(d, k, list) == k \in DOMAIN d => Below(d[k], list)
RefIntegrity(doc) ==
    LET skins == DictGet(doc, "skins", << >>)
        anims == DictGet(doc, "animations", << >>)
        scenes == DictGet(doc, "scenes", << >>)
    IN
    /\ \A n \in 1..Len(doc.accessors) : KeyBelow(doc.accessors[n], "bufferView", doc.bufferViews)
    /\ \A n \in 1..Len(doc.bufferViews) : KeyBelow(doc.bufferViews[n], "buffer", doc.buffers)
    /\ \A n \in 1..Len(skins) :
          /\ AllBelow(skins[n].joints, doc.nodes)
          /\ KeyBelow(skins[n], "skeleton", doc.nodes)
          /\ KeyBelow(skins[n], "inverseBindMatrices", doc.accessors)
    /\ \A n \in 1..Len(doc.nodes) :
          /\ KeyBelow(doc.nodes[n], "skin", skins)
          /\ KeyBelow(doc.nodes[n], "mesh", doc.meshes)
          /\ AllBelow(DictGet(doc.nodes[n], "children", << >>), doc.nodes)
    /\ \A n \in 1..Len(doc.meshes) : \A q \in 1..Len(doc.meshes[n].primitives) :
          LET attrs == doc.meshes[n].primitives[q].attributes IN
          \A k \in DOMAIN attrs : Below(attrs[k], doc.accessors)
    /\ \A n \in 1..Len(anims) :
          /\ \A q \in 1..Len(anims[n].samplers) :
                /\ Below(anims[n].samplers[q].input, doc.accessors)
                /\ Below(anims[n].samplers[q].output, doc.accessors)
          /\ \A q \in 1..Len(anims[n].channels) :
                /\ Below(anims[n].channels[q].sampler, anims[n].samplers)
                /\ Below(anims[n].channels[q].target.node, doc.nodes)
    /\ \A n \in 1..Len(scenes) : AllBelow(DictGet(scenes[n], "nodes", << >>), doc.nodes)

\* C7: from an input document with referential integrity, the document has
\* referential integrity after every single mutation of the run (every state of
\* the run, one mutation per step).
C7_RefIntegrity == RefIntegrity(input.json) => RefIntegrity(gltf)

C7_Witness ==
    /\ pc = "done" /\ RefIntegrity(input.json) /\ RefIntegrity(gltf)
    /\ Len(gltf.skins) = 2 /\ Len(gltf.animations) = 4
    /\ Len(gltf.nodes) > Len(input.json.nodes)
    /\ Len(gltf.accessors) = Len(input.json.accessors) + 21

\* The skin the run appended, and the nodes it lists.
AddedSkin == Item(gltf.skins, loc.skin_idx)
SkinAdded == Past("AddSkin")
JointsMirrorBones ==
    \A n \in 1..Len(bones) :
       /\ n <= Len(AddedSkin.joints)
       /\ AddedSkin.joints[n] = loc.base_node_idx + (n - 1)
       /\ Item(gltf.nodes, AddedSkin.joints[n]).name = bones[n].name

\* C8 as stated: the skeleton has exactly 19 bones and the added skin lists
\* exactly 19 joints.
C8_Original ==
    /\ (Len(bones) > 0) => Len(bones) = 19
    /\ SkinAdded => Len(AddedSkin.joints) = 19

\* C8, amended: for any mesh bounds the skeleton has exactly 20 bones, and the
\* added skin lists exactly 20 joints, the node of each bone in bone order.
C8_TwentyBones ==
    /\ Past("BuildSkeleton") => Len(bones) = 20
    /\ SkinAdded => (Len(AddedSkin.joints) = 20 /\ JointsMirrorBones)

C8_Witness ==
    /\ pc = "done" /\ Len(bones) = 20 /\ Len(AddedSkin.joints) = 20
    /\ loc.skin_idx = 1 /\ loc.base_node_idx = 2
    /\ AddedSkin.joints[20] = 21 /\ Item(gltf.nodes, 21).name = "RightFoot"

\* C9: the parent table of the generated skeleton is a tree rooted at bone 0:
\* bone 0 alone has parent -1 and every other bone i has a parent p, 0 <= p < i.
C9_ParentTree ==
    /\ Past("BuildSkeleton") => Len(bones) > 1
    /\ \A n \in 1..Len(bones) :
       IF n = 1 THEN bones[n].parent = -1
       ELSE bones[n].parent >= 0 /\ bones[n].parent < n - 1

C9_Witness ==
    /\ pc = "SolveWeights" /\ Len(bones) = 20
    /\ bones[1].parent = -1 /\ bones[20].parent = 18 /\ bones[11].parent = 3
    /\ bones[2].pos # bones[1].pos

\* The rows (one per vertex) read back from the written container through the
\* accessor of a vertex attribute.
AttrRows(name) ==
    get_accessor_data(output.json, output.bin,
                      Item(Item(output.json.meshes, MeshIdx).primitives, 0).attributes[name]).data
AttrAccessor(name) ==
    Item(output.json.accessors,
         Item(Item(output.json.meshes, MeshIdx).primitives, 0).attributes[name])

\* C10: after a successful run on a mesh of V vertices the first primitive of
\* the located mesh has JOINTS_0 and WEIGHTS_0 accessors of count V and type
\* VEC4, over 4 * V values: row v of each holds the 4 influences the solver
\* computed for vertex v (vertex-major order).
C10_VertexAttributes ==
    pc = "done" =>
        LET V == Item(input.json.accessors, 0).count
            attrs == Item(Item(output.json.meshes, MeshIdx).primitives, 0).attributes
        IN /\ {"JOINTS_0", "WEIGHTS_0"} \subseteq DOMAIN attrs
           /\ \A name \in {"JOINTS_0", "WEIGHTS_0"} :
                 /\ AttrAccessor(name).count = V
                 /\ AttrAccessor(name).type = "VEC4"
                 /\ Len(AttrRows(name)) = V
                 /\ Item(output.json.bufferViews, AttrAccessor(name).bufferView).byteLength
                      = 4 * V * ComponentWidth[AttrAccessor(name).componentType]
           /\ Len(positions) = V
           /\ \E tie \in {"asc", "desc"} : \A v \in 1..V :
                 /\ AttrRows("JOINTS_0")[v] = TopIndices(positions[v], bones, tie)
                 /\ AttrRows("WEIGHTS_0")[v] = TopWeights(positions[v], bones, tie)

C10_Witness ==
    /\ pc = "done" /\ Len(positions) = 3
    /\ AttrAccessor("JOINTS_0").count = 3 /\ AttrAccessor("WEIGHTS_0").count = 3
    /\ Len(AttrRows("WEIGHTS_0")) = 3 /\ Len(AttrRows("JOINTS_0")[3]) = 4
    /\ AttrRows("JOINTS_0")[1] # AttrRows("JOINTS_0")[2]

\* The animations of the input document, and the clips the run appended to them.
InputAnims == DictGet(input.json, "animations", << >>)
AddedClips == Rest(output.json.animations, Len(InputAnims))
ClipNames(anims) == [n \in 1..Len(anims) |-> anims[n].name]

\* C11: a successful run appends exactly three clips, named Idle, Walk and
\* Attack in that order, after the animations of the input document, which it
\* keeps; from an input without animations the output has exactly these three.
C11_ThreeClips ==
    pc = "done" =>
        /\ "animations" \in DOMAIN output.json
        /\ Len(output.json.animations) = Len(InputAnims) + 3
        /\ IsPrefix(InputAnims, output.json.animations)
        /\ ClipNames(AddedClips) = << "Idle", "Walk", "Attack" >>
        /\ ("animations" \notin DOMAIN input.json => Len(output.json.animations) = 3)

C11_Witness ==
    /\ pc = "done" /\ Len(InputAnims) = 1
    /\ ClipNames(output.json.animations) = << "Old", "Idle", "Walk", "Attack" >>
    /\ Len(output.json.animations[3].channels) = 5

\* The time samples of a channel of an added clip, read back from the written
\* container through the input accessor of the channel's sampler.
TimeAccessorIdx(clip, ch) == Item(clip.samplers, ch.sampler).input
TimeSamples(clip, ch) ==
    get_accessor_data(output.json, output.bin, TimeAccessorIdx(clip, ch))
StrictlyIncreasing(q) == \A n \in 1..(Len(q) - 1) : q[n] < q[n + 1]

\* C12: for every channel of every generated clip the time samples are strictly
\* increasing and start at 0, and the min and max declared on the channel's time
\* accessor are the first and the last sample.
C12_TimeSamples ==
    pc = "done" =>
        \A a \in 1..Len(AddedClips) : \A c \in 1..Len(AddedClips[a].channels) :
           LET ch == AddedClips[a].channels[c]
               acc == Item(output.json.accessors, TimeAccessorIdx(AddedClips[a], ch))
               r == TimeSamples(AddedClips[a], ch)
           IN /\ r.status = "ok"
              /\ Len(r.data) = acc.count /\ Len(r.data) > 1
              /\ StrictlyIncreasing(r.data)
              /\ r.data[1] = 0
              /\ acc.min = << r.data[1] >>
              /\ acc.max = << r.data[Len(r.data)] >>

C12_Witness ==
    /\ pc = "done" /\ Len(AddedClips) = 3
    /\ LET clip == AddedClips[3]
           r == TimeSamples(clip, clip.channels[2])
       IN /\ r.status = "ok" /\ Len(r.data) = 16
          /\ r.data[1] = 0 /\ r.data[16] = attack_duration /\ r.data[2] > 0
          /\ Item(output.json.accessors, TimeAccessorIdx(clip, clip.channels[2])).max
                = << attack_duration >>

\* The row of vertex v in the solver's flat outputs, the unnormalized weights of
\* the bones it selected, and 1e-5 as a word.
VertexRow(flat, v) == SubSeq(flat, max_influences * (v - 1) + 1, max_influences * v)
SelectedRaw(v) ==
    [k \in 1..max_influences |->
       InvDist(positions[v], Item(bones, VertexRow(joints_data, v)[k]).pos)]
WeightTolerance == FScale \div 100000
Near(x, y, tol) == x - y <= tol /\ y - x <= tol

\* C13: for every vertex the K weights the solver emitted sum to 1.0 within
\* 1e-5, unless the K selected unnormalized weights are all zero.
C13_WeightsNormalized ==
    Past("SolveWeights") =>
        /\ Len(weights_data) = max_influences * Len(positions)
        /\ \A v \in 1..Len(positions) :
              \/ AllEqual(SelectedRaw(v), 0)
              \/ Near(SumSeq(VertexRow(weights_data, v)), FScale, WeightTolerance)

C13_Witness ==
    /\ pc = "CreateAnimations" /\ Len(positions) = 3
    /\ \A v \in 1..3 : ~AllEqual(SelectedRaw(v), 0)
    /\ \E v \in 1..3 : SumSeq(VertexRow(weights_data, v)) # FScale
    /\ \E v \in 1..3 : VertexRow(weights_data, v)[1] > VertexRow(weights_data, v)[4]
    /\ \A v \in 1..3 : Near(SumSeq(VertexRow(weights_data, v)), FScale, WeightTolerance)

\* The locals of the run as they are before Load, and as Load leaves them.
NothingRead ==
    /\ gltf = NoDoc /\ bin_data = << >>
NothingBuilt ==
    /\ mesh_node_idx = -1 /\ positions = << >> /\ bones = << >>
    /\ joints_data = << >> /\ weights_data = << >> /\ animations = << >>
    /\ joint_node_indices = << >> /\ regions = << >>

\* C14: a run on a container whose magic tag is not the format's constant ends
\* at the decode step with read_glb's ValueError("Not a valid GLB file"): no
\* later step runs and the output file is never created or written.
C14_BadMagic ==
    input.magic # GLB_MAGIC =>
        /\ pc \in {"idle", "Load", "error"}
        /\ pc = "error" => err = "ValueError: Not a valid GLB file"
        /\ NothingRead /\ NothingBuilt
        /\ output = NoOutput

C14_Witness ==
    /\ pc = "error" /\ err = "ValueError: Not a valid GLB file"
    /\ input.magic = CHUNK_BIN /\ Len(input.bin) > 0
    /\ NothingRead /\ NothingBuilt /\ output = NoOutput

\* C15: a run on an input none of whose nodes has a mesh ends at the mesh search
\* with ValueError("No mesh found in model"): no later step runs, the document
\* and the payload stay as they were read, and no output is written.
NoMeshInput ==
    /\ input.magic = GLB_MAGIC
    /\ \A n \in 1..Len(input.json.nodes) : "mesh" \notin DOMAIN input.json.nodes[n]
C15_NoMesh ==
    (pc # "idle" /\ NoMeshInput) =>
        /\ pc \in {"Load", "LocateMesh", "error"}
        /\ pc = "error" => err = "ValueError: No mesh found in model"
        /\ pc # "Load" => (gltf = input.json /\ bin_data = input.bin)
        /\ NothingBuilt
        /\ output = NoOutput

C15_Witness ==
    /\ pc = "error" /\ err = "ValueError: No mesh found in model"
    /\ NoMeshInput /\ Len(input.json.nodes) = 1 /\ Len(input.bin) > 0
    /\ gltf = input.json /\ bin_data = input.bin /\ output = NoOutput

\* C16 as stated: in a run that ended in failure the output file is either
\* untouched or holds the complete container.
C16_NoPartialOutput ==
    pc = "error" => (~output.exists \/ output.written = 5)

\* C17 as stated: decode rejects a container with the right magic tag and a
\* version other than 2, and yields no document.
C17_VersionChecked ==
    (cpc = "readforeign" /\ Magic(file) = GLB_MAGIC /\ Version(file) # GLB_VERSION) =>
        dec.status # "ok"

\* A chunk's declared length takes the chunk past the container's declared
\* total length: the document chunk, or the binary chunk that follows it.
JsonOverruns(f) == HEADER_LEN + CHUNK_HEADER_LEN + JsonChunkLen(f) > DeclaredLength(f)
BinOverruns(f) ==
    LET start == HEADER_LEN + CHUNK_HEADER_LEN + JsonChunkLen(f) IN
    /\ ~JsonOverruns(f)
    /\ start < DeclaredLength(f)
    /\ Len(f) >= start + CHUNK_HEADER_LEN
    /\ start + CHUNK_HEADER_LEN + BinChunkLen(f) > DeclaredLength(f)

\* C18 as stated: decode fails whenever a chunk's declared length takes it past
\* the container's declared total length; it returns neither a document nor a
\* truncated payload.
C18_OverrunRejected ==
    (cpc = "readforeign" /\ Magic(file) = GLB_MAGIC
       /\ (JsonOverruns(file) \/ BinOverruns(file))) =>
        dec.status # "ok"

\* The stages of add_skeleton_to_glb in the order of its statements, each named
\* by the position it starts at: load, mesh search, positions, skeleton, weights,
\* animation synthesis, skin data, vertex attributes, animation data, buffer
\* length, scene root, encode, end.
StageStarts ==
    << "Load", "LocateMesh", "ExtractPositions", "BuildSkeleton", "SolveWeights",
       "CreateAnimations", "AddJointNodes", "AppendJoints", "InitAnimations",
       "UpdateBufferSize", "AddRootToScene", "Encode", "done" >>
StageOf(p) ==
    Cardinality({ n \in 1..Len(StageStarts) : PcRank(StageStarts[n]) <= PcRank(p) })

\* The stage of the stated sequence (Load 1 .. Encode 10, the end 11) that the
\* work at a position belongs to: synthesis of the clips is in stage 8 with
\* their appending, the scene root is counted with the buffer length in stage 9.
StatedStage(p) ==
    IF p = "CreateAnimations" THEN 8
    ELSE IF StageOf(p) <= 5 THEN StageOf(p)
    ELSE IF StageOf(p) <= 10 THEN StageOf(p) - 1
    ELSE StageOf(p) - 2

Running(p) == p \notin {"idle", "error"}

\* C19 as stated: the stages run in the stated order, none after a later one.
C19_StatedOrder ==
    [][(Running(pc) /\ Running(pc')) => StatedStage(pc') >= StatedStage(pc)]_vars

\* C19, amended: every run goes through the stages Load, Locate-Mesh,
\* Extract-Positions, Build-Skeleton, Solve-Weights, Synthesize-Animations,
\* Append-Skin-Data, Append-Vertex-Attributes, Append-Animations,
\* Finalize-Buffer-Length, Add-Root-To-Scene, Encode in this order: a step stays
\* in its stage, moves to the next one or takes the error exit, which ends the
\* run, and each local is written only in its own stage.
C19_StageOrder ==
    /\ [][Running(pc) =>
             \/ pc' = "error"
             \/ StageOf(pc') = StageOf(pc)
             \/ StageOf(pc') = StageOf(pc) + 1]_vars
    /\ [][pc = "error" => pc' = "error"]_vars
    /\ [][/\ mesh_node_idx' # mesh_node_idx => StageOf(pc) = 2
          /\ positions' # positions => StageOf(pc) = 3
          /\ bones' # bones => StageOf(pc) = 4
          /\ (joints_data' # joints_data \/ weights_data' # weights_data) => StageOf(pc) = 5
          /\ animations' # animations => StageOf(pc) = 6
          /\ joint_node_indices' # joint_node_indices => StageOf(pc) = 7
          /\ bin_data' # bin_data => StageOf(pc) \in {1, 7, 8, 9}
          /\ gltf' # gltf => StageOf(pc) \in {1, 7, 8, 9, 10, 11}
          /\ output' # output => StageOf(pc) = 12]_vars

C19_Witness ==
    /\ pc = "AddJointNodes" /\ StageOf(pc) = 7 /\ StatedStage(pc) = 6
    /\ Len(animations) = 3
    /\ Len(gltf.nodes) = Len(input.json.nodes) /\ Len(regions) = 0

\* The byte region an accessor resolves to: its start (the two byte offsets,
\* 0 when absent) and its size (count x components x width).
Recognized(acc) ==
    acc.componentType \in DOMAIN ComponentWidth /\ acc.type \in DOMAIN type_counts
RegionStart(acc, view) == DictGet(view, "byteOffset", 0) + DictGet(acc, "byteOffset", 0)
RegionSize(acc) == acc.count * type_counts[acc.type] * ComponentWidth[acc.componentType]
PastPayload(acc, view, bin) ==
    Recognized(acc) /\ RegionStart(acc, view) + RegionSize(acc) > Len(bin)

\* C20 as stated: the read fails and returns no values when the component type
\* or the shape is not a recognized code, or when the region extends past the
\* end of the payload.
C20_ReadRejects ==
    (rpc = "read" /\ (~Recognized(r_acc) \/ PastPayload(r_acc, r_view, r_bin))) =>
        (r_ret.status # "ok" /\ r_ret.data = << >>)

\* An input with the right magic tag whose first mesh node leads to a position
\* accessor of count 0.
HasMeshNode(doc) == \E n \in 1..Len(doc.nodes) : "mesh" \in DOMAIN doc.nodes[n]
EmptyMeshInput ==
    /\ input.magic = GLB_MAGIC
    /\ HasMeshNode(input.json)
    /\ Item(input.json.accessors, 0).count = 0

\* C21: a run on an input whose located mesh has no vertices (position accessor
\* of count 0) ends with the ValueError numpy raises on the empty array, at the
\* bounds computation: the document and the payload are as they were read,
\* nothing is built after the (empty) positions, and no output is written.
C21_EmptyMesh ==
    (pc # "idle" /\ EmptyMeshInput) =>
        /\ pc \in {"Load", "LocateMesh", "ExtractPositions", "BuildSkeleton", "error"}
        /\ pc = "error" => err = "ValueError: zero-size array"
        /\ pc # "Load" => (gltf = input.json /\ bin_data = input.bin)
        /\ positions = << >> /\ bones = << >> /\ joints_data = << >> /\ weights_data = << >>
        /\ animations = << >> /\ joint_node_indices = << >> /\ regions = << >>
        /\ output = NoOutput

C21_Witness ==
    /\ pc = "error" /\ err = "ValueError: zero-size array"
    /\ EmptyMeshInput /\ mesh_node_idx = 1 /\ Len(input.bin) > 0
    /\ gltf = input.json /\ bin_data = input.bin /\ output = NoOutput

\* A dict without one key, and whether two lists of dicts agree everywhere but
\* at one index (0-based), where they may differ in the one key only.
Without(d, k) == [x \in (DOMAIN d) \ {k} |-> d[x]]
SameButKeyAt(old, new, idx, k) ==
    /\ Len(new) = Len(old)
    /\ \A n \in 1..Len(old) :
          IF n = idx + 1 THEN Without(new[n], k) = Without(old[n], k) ELSE new[n] = old[n]
\* The attribute map kept every entry it had and gained at most the two skinning
\* attributes.
AttributesGrown(old, new) ==
    /\ (DOMAIN old) \subseteq (DOMAIN new)
    /\ (DOMAIN new) \subseteq ((DOMAIN old) \cup {"JOINTS_0", "WEIGHTS_0"})
    /\ \A k \in (DOMAIN old) \ {"JOINTS_0", "WEIGHTS_0"} : new[k] = old[k]

\* C22: in every state of a run after Load, every entry the input document had
\* in nodes, accessors, bufferViews, skins and animations is at its index,
\* unchanged, except that the located mesh node may differ in its skin key;
\* meshes, buffers and scenes keep their entries too, except the attribute map
\* of the located mesh's first primitive (which only gains JOINTS_0 and
\* WEIGHTS_0), buffer 0's byteLength and scene 0's node list; no top-level key
\* other than skins and animations is added and none is removed.
C22_InputPreserved ==
    (Running(pc) /\ pc # "Load") =>
        LET old == input.json
            loc_mesh == IF mesh_node_idx >= 0 THEN mesh_node_idx ELSE -1
        IN
        /\ IsPrefix(old.accessors, gltf.accessors)
        /\ IsPrefix(old.bufferViews, gltf.bufferViews)
        /\ IsPrefix(DictGet(old, "skins", << >>), DictGet(gltf, "skins", << >>))
        /\ IsPrefix(DictGet(old, "animations", << >>), DictGet(gltf, "animations", << >>))
        /\ Len(gltf.nodes) >= Len(old.nodes)
        /\ SameButKeyAt(old.nodes, SubSeq(gltf.nodes, 1, Len(old.nodes)), loc_mesh, "skin")
        /\ (DOMAIN old) \subseteq (DOMAIN gltf)
        /\ (DOMAIN gltf) \subseteq ((DOMAIN old) \cup {"skins", "animations"})
        /\ SameButKeyAt(old.buffers, gltf.buffers, 0, "byteLength")
        /\ "scenes" \in DOMAIN old =>
              /\ SameButKeyAt(old.scenes, gltf.scenes, 0, "nodes")
              /\ Len(old.scenes) > 0 =>
                    IsPrefix(DictGet(old.scenes[1], "nodes", << >>),
                             DictGet(gltf.scenes[1], "nodes", << >>))
        /\ Len(gltf.meshes) = Len(old.meshes)
        /\ \A m \in 1..Len(old.meshes) :
              IF mesh_node_idx >= 0 /\ m = MeshIdx + 1
              THEN /\ Without(gltf.meshes[m], "primitives") = Without(old.meshes[m], "primitives")
                   /\ SameButKeyAt(old.meshes[m].primitives, gltf.meshes[m].primitives,
                                   0, "attributes")
                   /\ AttributesGrown(old.meshes[m].primitives[1].attributes,
                                      gltf.meshes[m].primitives[1].attributes)
              ELSE gltf.meshes[m] = old.meshes[m]

C22_Witness ==
    /\ pc = "done" /\ Len(input.json.nodes) = 2 /\ mesh_node_idx = 1
    /\ gltf.nodes[1] = input.json.nodes[1]
    /\ input.json.nodes[2].skin = 0 /\ gltf.nodes[2].skin = 1
    /\ gltf.skins[1] = input.json.skins[1] /\ gltf.animations[1] = input.json.animations[1]
    /\ gltf.meshes[1].primitives[2] = input.json.meshes[1].primitives[2]
    /\ gltf.meshes[2] = input.json.meshes[2] /\ gltf.buffers[2] = input.json.buffers[2]
    /\ gltf.scenes[2] = input.json.scenes[2]
    /\ gltf.scenes[1].nodes = << 0, 2 >>
    /\ gltf.buffers[1].byteLength > input.json.buffers[1].byteLength
    /\ Len(gltf.nodes) = 22 /\ "JOINTS_0" \in DOMAIN gltf.meshes[1].primitives[1].attributes

\* C23: from Encode on, buffer 0's declared byteLength is the length of the
\* payload, which is a multiple of 4 whatever the input payload's length and the
\* vertex count, so write_glb pads nothing and the binary chunk it writes has
\* exactly the declared length.
C23_BufferLength ==
    /\ AtEncode =>
          /\ Item(gltf.buffers, 0).byteLength = Len(bin_data)
          /\ Len(bin_data) % 4 = 0
          /\ PadBin(bin_data) = bin_data
    /\ pc = "done" =>
          /\ Len(output.bin) = Item(output.json.buffers, 0).byteLength
          /\ output.bin = bin_data

C23_Witness ==
    /\ pc = "done" /\ Len(input.bin) % 4 = 3 /\ Len(positions) = 3
    /\ Item(input.json.buffers, 0).byteLength = Len(input.bin)
    /\ Item(output.json.buffers, 0).byteLength = Len(output.bin)
    /\ Len(output.bin) > Len(input.bin) /\ Len(output.bin) % 4 = 0

\* The unnormalized weight of bone b (0-based) for vertex v, and the bones the
\* solver selected for v.
RawWeight(v, b) == InvDist(positions[v], Item(bones, b).pos)
SelectedBones(v) == { VertexRow(joints_data, v)[k] : k \in 1..max_influences }

\* C24 (on the solver's outputs, in the state that follows the call): for every
\* vertex the K joint indices the solver emitted are pairwise
\* distinct and lie in [0, number of bones); no bone left out has a strictly
\* larger inverse-distance weight than a selected one; the indices are in order
\* of non-increasing weight, and the weight at position k is the normalized
\* weight of the bone at position k.
C24_TopInfluences ==
    pc = "CreateAnimations" =>
        /\ Len(joints_data) = max_influences * Len(positions)
        /\ \A v \in 1..Len(positions) :
              LET J == VertexRow(joints_data, v)
                  W == VertexRow(weights_data, v)
                  total == SumSeq(SelectedRaw(v))
              IN /\ Cardinality(SelectedBones(v)) = max_influences
                 /\ \A k \in 1..max_influences : J[k] >= 0 /\ J[k] < Len(bones)
                 /\ \A b \in (0..(Len(bones) - 1)) \ SelectedBones(v) :
                       \A k \in 1..max_influences : RawWeight(v, b) <= RawWeight(v, J[k])
                 /\ \A k \in 1..(max_influences - 1) :
                       /\ RawWeight(v, J[k]) >= RawWeight(v, J[k + 1])
                       /\ W[k] >= W[k + 1]
                 /\ \A k \in 1..max_influences :
                       W[k] = MulDivMod(RawWeight(v, J[k]), FScale, total).q

C24_Witness ==
    /\ pc = "CreateAnimations" /\ Len(positions) = 3 /\ Len(bones) = 20
    /\ \E v \in 1..3 :
          LET J == VertexRow(joints_data, v)
              W == VertexRow(weights_data, v)
          IN /\ RawWeight(v, J[1]) > RawWeight(v, J[2])
             /\ W[1] > W[2] /\ W[4] > 0
             /\ \E b \in (0..19) \ SelectedBones(v) : RawWeight(v, b) < RawWeight(v, J[4])

\* A well-formed container (right magic and version, true total length, a
\* document chunk of the declared type) that ends right after its document
\* chunk, and one that holds more than one chunk after it.
WellFormedHead(f) ==
    /\ Len(f) >= HEADER_LEN + CHUNK_HEADER_LEN
    /\ Magic(f) = GLB_MAGIC /\ Version(f) = GLB_VERSION /\ DeclaredLength(f) = Len(f)
    /\ SubSeq(f, 17, 20) = U32LE(CHUNK_JSON)
DocChunkEnd(f) == HEADER_LEN + CHUNK_HEADER_LEN + JsonChunkLen(f)
NoBinChunk(f) == WellFormedHead(f) /\ DocChunkEnd(f) = Len(f)
TwoBinChunks(f) ==
    /\ WellFormedHead(f)
    /\ Len(f) >= DocChunkEnd(f) + CHUNK_HEADER_LEN
    /\ DocChunkEnd(f) + CHUNK_HEADER_LEN + BinChunkLen(f) + Len(SecondChunk) = Len(f)

\* C25: decoding a well-formed container that ends right after its document
\* chunk succeeds and gives the document and an empty payload; from a container
\* with two binary chunks only the first is read.
C25_NoBinaryChunk ==
    cpc = "readforeign" =>
        /\ NoBinChunk(file) =>
              (dec.status = "ok" /\ DocEquiv(dec.json, c_doc) /\ dec.bin = << >>)
        /\ TwoBinChunks(file) =>
              (dec.status = "ok" /\ DocEquiv(dec.json, c_doc) /\ dec.bin = PadBin(c_payload))

C25_Witness ==
    /\ cpc = "readforeign" /\ NoBinChunk(file) /\ Len(c_doc) = 2 /\ Len(c_payload) = 3
    /\ Len(file) = 20 + Len(PadJson(json_dumps(c_doc)))
    /\ dec.status = "ok" /\ dec.json = c_doc /\ dec.bin = << >>

\* The accessors the run appended, and the bytes an accessor's elements take.
AddedAccessors == { n \in 1..Len(gltf.accessors) : n > loc.base_accessor_idx }
AccessorBytes(acc) == acc.count * type_counts[acc.type] * ComponentWidth[acc.componentType]
SizedAsView(acc) == AccessorBytes(acc) = Item(gltf.bufferViews, acc.bufferView).byteLength

\* C26: every accessor the run appended has count x components per element x
\* component width equal to the byte length of the buffer view it names, after
\* every step of the run; in every sampler of an added clip the output accessor
\* has the count of the input accessor.
C26_AccessorSizes ==
    /\ Past("CreateAnimations") => \A n \in AddedAccessors : SizedAsView(gltf.accessors[n])
    /\ AtEncode =>
          \A k \in 1..Len(gltf.animations) : k > Len(InputAnims) =>
             \A q \in 1..Len(gltf.animations[k].samplers) :
                LET sm == gltf.animations[k].samplers[q] IN
                Item(gltf.accessors, sm.output).count = Item(gltf.accessors, sm.input).count

C26_Witness ==
    /\ pc = "done" /\ Cardinality(AddedAccessors) = 21
    /\ \E n \in AddedAccessors : gltf.accessors[n].type = "MAT4" /\ AccessorBytes(gltf.accessors[n]) = 1280
    /\ \E n \in AddedAccessors :
          /\ gltf.accessors[n].componentType = 5121
          /\ AccessorBytes(gltf.accessors[n]) = 4 * MaxVerts
    /\ \E n \in AddedAccessors : gltf.accessors[n].type = "VEC3" /\ AccessorBytes(gltf.accessors[n]) = 372
    /\ Len(gltf.animations) = 4
    /\ Item(gltf.accessors, gltf.animations[4].samplers[1].output).count = 16

\* How many times x occurs in a list, the children a node lists, and the node
\* the run created for the bone at (0-based) index i.
Occurrences(list, x) == Cardinality({ n \in 1..Len(list) : list[n] = x })
ChildrenOf(node_idx) == DictGet(Item(gltf.nodes, node_idx), "children", << >>)
NodeOfBone(i) == loc.base_node_idx + i
NodeIndices == { n - 1 : n \in 1..Len(gltf.nodes) }
SceneExists == "scenes" \in DOMAIN gltf /\ Len(gltf.scenes) > 0

\* C27: once the run has made its last change to the document (input documents
\* have referential integrity), the added skin lists the node of bone i at
\* place i and that node carries the bone's name and position, its skeleton is
\* the node of bone 0, its inverse-bind accessor counts one matrix per joint,
\* every bone with a parent is listed exactly once by its parent's node and by
\* no other node, and the node of bone 0 is listed by no node and exactly once
\* by scene 0 when scenes is present and not empty.
C27_JointsMirrorBones ==
    (AtEncode /\ RefIntegrity(input.json)) =>
        /\ Len(AddedSkin.joints) = Len(bones)
        /\ \A n \in 1..Len(bones) :
              /\ AddedSkin.joints[n] = NodeOfBone(n - 1)
              /\ Item(gltf.nodes, NodeOfBone(n - 1)).name = bones[n].name
              /\ Item(gltf.nodes, NodeOfBone(n - 1)).translation = bones[n].pos
        /\ AddedSkin.skeleton = NodeOfBone(0)
        /\ Item(gltf.accessors, AddedSkin.inverseBindMatrices).count = Len(AddedSkin.joints)
        /\ \A n \in 1..Len(bones) : \A m \in NodeIndices :
              Occurrences(ChildrenOf(m), NodeOfBone(n - 1)) =
                 IF bones[n].parent >= 0 /\ m = NodeOfBone(bones[n].parent) THEN 1 ELSE 0
        /\ bones[1].parent < 0
        /\ SceneExists => Occurrences(DictGet(Item(gltf.scenes, 0), "nodes", << >>), NodeOfBone(0)) = 1

C27_Witness ==
    /\ pc = "done" /\ Len(bones) = 20 /\ loc.base_node_idx = 2
    /\ SceneExists /\ Len(gltf.scenes) = 2
    /\ Item(gltf.scenes, 0).nodes = << 0, 2 >>
    /\ Item(gltf.scenes, 1).nodes = << 0 >>
    /\ ChildrenOf(0) = << 1 >>
    /\ Len(ChildrenOf(NodeOfBone(1))) = 3
    /\ AddedSkin.skeleton = 2 /\ AddedSkin.joints[20] = 21

\* Component c of element e of a read, decoded from the packed bytes: element e
\* (0-based) starts at the region's start + e x element size.
ElementSize(acc) == type_counts[acc.type] * ComponentWidth[acc.componentType]
PackedComponent(acc, view, bin, e, c) ==
    LET width == ComponentWidth[acc.componentType]
        at == RegionStart(acc, view) + e * ElementSize(acc) + c * width
    IN UnpackOne(SubSeq(bin, at + 1, at + width), acc.componentType)
RegionInPayload(acc, view, bin) ==
    Recognized(acc) /\ RegionSize(acc) > 0 /\ RegionStart(acc, view) + RegionSize(acc) <= Len(bin)

\* C28: a read whose region lies in the payload succeeds; a read that succeeds
\* returns accessor.count elements, numbers for the scalar shape and tuples of
\* the shape's component count otherwise, element i decoded from the bytes at
\* view offset + accessor offset + i x element size, with or without a
\* byteStride on the view.
C28_ReadPacked ==
    rpc = "read" =>
        /\ RegionInPayload(r_acc, r_view, r_bin) => r_ret.status = "ok"
        /\ r_ret.status = "ok" =>
              /\ Len(r_ret.data) = r_acc.count
              /\ \A e \in 1..r_acc.count :
                    IF r_acc.type = "SCALAR"
                    THEN r_ret.data[e] = PackedComponent(r_acc, r_view, r_bin, e - 1, 0)
                    ELSE r_ret.data[e] =
                            [c \in 1..type_counts[r_acc.type] |->
                               PackedComponent(r_acc, r_view, r_bin, e - 1, c - 1)]

C28_Witness ==
    /\ rpc = "read" /\ r_ret.status = "ok"
    /\ r_acc.componentType = 5120 /\ r_acc.type = "VEC2" /\ r_acc.count = 2
    /\ DictGet(r_acc, "byteOffset", 0) = 2 /\ DictGet(r_view, "byteStride", 0) = 4
    /\ Len(r_bin) = 8
    /\ r_ret.data = << << -55, 12 >>, << 79, -110 >> >>

C28_ScalarWitness ==
    /\ rpc = "read" /\ r_ret.status = "ok"
    /\ r_acc.componentType = 5123 /\ r_acc.type = "SCALAR" /\ r_acc.count = 2
    /\ "byteStride" \in DOMAIN r_view /\ DictGet(r_view, "byteOffset", 0) = 4
    /\ r_ret.data = << 37455, 6357 >>

====
